---- MODULE Spec2Model ----
(***************************************************************************)
(* A model of the scenario execution engine of gdt-dev/core:               *)
(*   - the retry/timeout precedence resolver (getRetry, getTimeout),       *)
(*   - the dependency verifier (checkDependencies, checkDependency,        *)
(*     versionStringFromDependency),                                       *)
(*   - the scenario orchestrator (Scenario.Run, runExternal, runGo,        *)
(*     runSpec) with the evaluation goroutine (execSpec) and its backoff   *)
(*     ticker, the standalone TestUnit and the Run aggregator.             *)
(* Indices of test specs are 0-based as in the source.                     *)
(***************************************************************************)
EXTENDS Integers, Sequences, FiniteSets, TLC

\* ------------------------------------------------------------------ bounds

\* number of test specs (s.Tests) of the modelled scenario
NumTests == 3
\* largest retry.Attempts value drawn for a retry policy
MaxAttempts == 3
\* largest timeout duration drawn, in clock units
MaxTimeout == 2
\* last instant of the model clock
MaxTime == 3
\* largest number of dependencies (s.Depends) drawn
MaxDeps == 2
\* largest number of fixtures (s.Fixtures) drawn
MaxFixtures == 2
\* largest number of skip-if conditions (s.SkipIf) drawn
MaxSkipIf == 2
\* TestUnits in a tree of test units called directly
MaxUnits == 3
\* TestUnit methods the coordinating task calls
MaxCalls == 2
\* lines the evaluation task logs through a TestUnit
MaxLogs == 1
\* largest number of scenarios (Suite.Scenarios) drawn
MaxScenarios == 3

\* ------------------------------------------------------------ small helpers

Nil == "nil"

Range(f) == {f[x] : x \in DOMAIN f}

\* slices.Reverse
Reverse(s) == [k \in 1..Len(s) |-> s[Len(s) + 1 - k]]

\* ------------------------------------------------- retry/timeout resolver

\* a nil *api.Retry
NilRetry == [kind |-> "nil", Attempts |-> 0, Exponential |-> FALSE]

\* api.NoRetry: the distinguished "never retry" sentinel pointer
NoRetry == [kind |-> "NoRetry", Attempts |-> 0, Exponential |-> FALSE]

\* a configured *api.Retry; Attempts = 0 stands for a nil Attempts pointer
RetryPolicy(a, e) == [kind |-> "policy", Attempts |-> a, Exponential |-> e]

RetryPolicies == {RetryPolicy(a, e) : a \in 0..MaxAttempts, e \in BOOLEAN}

\* the values a *api.Retry at one level can take
RetryVals == {NilRetry, NoRetry} \cup RetryPolicies

\* a nil *api.Timeout
NilTimeout == [kind |-> "nil", After |-> 0]

\* a configured *api.Timeout of d clock units
Timeout(d) == [kind |-> "timeout", After |-> d]

\* the values a *api.Timeout at one level can take
TimeoutVals == {NilTimeout} \cup {Timeout(d) : d \in 1..MaxTimeout}

\* The four places the configuration of a spec can come from:
\*   eval      the Evaluable's own Retry() / Timeout()
\*   base      eval.Base().Retry / eval.Base().Timeout
\*   defaults  the scenario's Defaults (hasDefaults: s.getDefaults() # nil)
\*   plugin    plugin.Info().Retry / plugin.Info().Timeout
LevelsOf(R, T) ==
    [evalRetry : R, baseRetry : R, hasDefaults : BOOLEAN, defaultsRetry : R,
     pluginRetry : R,
     evalTimeout : T, baseTimeout : T, defaultsTimeout : T, pluginTimeout : T]

\* getTimeout
getTimeout(lv) ==
    IF lv.evalTimeout # NilTimeout THEN lv.evalTimeout
    ELSE IF lv.baseTimeout # NilTimeout THEN lv.baseTimeout
    ELSE IF lv.hasDefaults /\ lv.defaultsTimeout # NilTimeout
         THEN lv.defaultsTimeout
    ELSE IF lv.pluginTimeout # NilTimeout THEN lv.pluginTimeout
    ELSE NilTimeout

\* a resolver that asks the scenario's Defaults before the spec itself
getRetryDefaultsFirst(lv) ==
    IF lv.hasDefaults /\ lv.defaultsRetry # NilRetry THEN lv.defaultsRetry
    ELSE IF lv.evalRetry # NilRetry THEN lv.evalRetry
    ELSE IF lv.baseRetry # NilRetry THEN lv.baseRetry
    ELSE IF lv.pluginRetry # NilRetry THEN lv.pluginRetry
    ELSE NilRetry

\* getRetry
getRetry(lv) ==
    IF lv.evalRetry # NilRetry THEN lv.evalRetry
    ELSE IF lv.baseRetry # NilRetry THEN lv.baseRetry
    ELSE IF lv.hasDefaults /\ lv.defaultsRetry # NilRetry
         THEN lv.defaultsRetry
    ELSE IF lv.pluginRetry # NilRetry THEN lv.pluginRetry
    ELSE NilRetry

\* ---------------------------------------------------- dependency verifier

\* runtime.GOOS of the host the scenarios run on
GOOS == "linux"

\* the OS strings drawn for Dependency.When.OS ("" is the unset field)
OSStrings == {"", "linux", "Linux", "LINUX", "darwin", "windows"}

\* Unicode simple case folding of the drawn OS strings
Fold(s) ==
    CASE s = "Linux" -> "linux"
      [] s = "LINUX" -> "linux"
      [] OTHER -> s

\* strings.EqualFold
EqualFold(a, b) == Fold(a) = Fold(b)

\* what the version probe of a located binary can print
ProbeOutputs == {"tool version 1.0.0", "2.0.0", "no version", "build 7 of 1.0.0"}

\* the default filter of the verifier, and a selector's own filter that
\* accepts only a dotted major.minor.patch token
DefaultFilter == "defaultVersionSelectorFilter"
CustomFilter == "[0-9]+\\.[0-9]+\\.[0-9]+"

NoMatch == "<no match>"

\* FilterRegex.FindString: the leftmost match of the pattern in the output,
\* NoMatch when FilterRegex.MatchString is false
FindString(re, out) ==
    IF re = DefaultFilter
    THEN CASE out = "tool version 1.0.0" -> "1.0.0"
           [] out = "2.0.0" -> "2.0.0"
           [] out = "build 7 of 1.0.0" -> "7"
           [] OTHER -> NoMatch
    ELSE CASE out = "tool version 1.0.0" -> "1.0.0"
           [] out = "2.0.0" -> "2.0.0"
           [] out = "build 7 of 1.0.0" -> "1.0.0"
           [] OTHER -> NoMatch

\* semver.NewVersion: the major version of a string that is a version,
\* -1 for a string that is none (the whole string must be a version)
NewVersion(str) ==
    CASE str = "1.0.0" -> 1
      [] str = "2.0.0" -> 2
      [] str = "7" -> 7
      [] OTHER -> -1

\* the version constraints drawn ("" is the unset field, with a nil
\* SemVerConstraints)
Constraints == {"", ">= 2.0.0", "< 2.0.0"}

\* semver.Constraints.Check
Check(c, ver) ==
    CASE c = ">= 2.0.0" -> ver >= 2
      [] c = "< 2.0.0" -> ver < 2
      [] OTHER -> TRUE

\* *api.DependencyVersionSelector values: nil, or Filter/FilterRegex
NilSelector == [kind |-> "nil", Filter |-> "", FilterRegex |-> Nil]
Selector(f, re) == [kind |-> "selector", Filter |-> f, FilterRegex |-> re]
Selectors ==
    {NilSelector, Selector("", Nil), Selector(CustomFilter, CustomFilter)}

\* the package-level defaultVersionSelector: Filter set, FilterRegex not
defaultVersionSelector == Selector(DefaultFilter, Nil)

\* *api.DependencyVersion values: nil, or Constraint/Selector
NilVersion == [kind |-> "nil", Constraint |-> "", Selector |-> NilSelector]
DepVersions ==
    {NilVersion} \cup
    [kind : {"version"}, Constraint : Constraints, Selector : Selectors]

\* *api.Dependency values; hasWhen = FALSE is a nil When
DepNames == {"myapp", "other"}
NilDependency ==
    [kind |-> "nil", Name |-> "", hasWhen |-> FALSE, OS |-> "",
     Version |-> NilVersion]
Dependencies ==
    {d \in [kind : {"dep"}, Name : DepNames, hasWhen : BOOLEAN, OS : OSStrings,
            Version : DepVersions] : ~d.hasWhen => d.OS = ""}

\* what exec.LookPath answers for a name, and what running the binary gives
LookPathResults == {"found", "ErrNotFound", "other error"}
ProbeResults ==
    [err : {TRUE}, out : {"2.0.0"}] \cup [err : {FALSE}, out : ProbeOutputs]
HostEnvs == [look : LookPathResults, probe : ProbeResults]

\* the outcome of a verifier call: the error returned ("nil" for none), the
\* constraint an unsatisfied-dependency error carries, and how many
\* executable lookups and version probes were made
DepOutcome(e, c, l, p) ==
    [err |-> e, constraint |-> c, lookups |-> l, probes |-> p]

\* versionStringFromDependency: [str, err]
versionStringFromDependency(env, selector) ==
    LET sel1 == IF selector = NilSelector THEN defaultVersionSelector
                ELSE selector
        sel2 == IF sel1.Filter = ""
                THEN Selector(DefaultFilter, DefaultFilter)
                ELSE sel1
    IN  IF env.probe.err THEN [str |-> "", err |-> "probe error"]
        ELSE IF sel2.FilterRegex # Nil
        THEN IF FindString(sel2.FilterRegex, env.probe.out) = NoMatch
             THEN [str |-> "", err |-> "unable to determine version string"]
             ELSE [str |-> FindString(sel2.FilterRegex, env.probe.out),
                   err |-> Nil]
        ELSE [str |-> env.probe.out, err |-> Nil]

\* a verifier that looks the executable up before it reads the OS condition
checkDependencyLookupFirst(dep, env) ==
    IF dep = NilDependency THEN DepOutcome(Nil, "", 0, 0)
    ELSE IF env.look = "ErrNotFound"
    THEN DepOutcome("ErrDependencyNotSatisfied", "", 1, 0)
    ELSE IF env.look = "other error"
    THEN DepOutcome("error checking for program", "", 1, 0)
    ELSE DepOutcome(Nil, "", 1, 0)

\* checkDependency
checkDependency(dep, env) ==
    IF dep = NilDependency THEN DepOutcome(Nil, "", 0, 0)
    ELSE IF dep.hasWhen /\ dep.OS # "" /\ ~EqualFold(GOOS, dep.OS)
    THEN DepOutcome(Nil, "", 0, 0)
    ELSE IF env.look = "ErrNotFound"
    THEN DepOutcome("ErrDependencyNotSatisfied", "", 1, 0)
    ELSE IF env.look = "other error"
    THEN DepOutcome("error checking for program", "", 1, 0)
    ELSE IF dep.Version # NilVersion /\ dep.Version.Constraint # ""
    THEN LET vs == versionStringFromDependency(env, dep.Version.Selector)
         IN  IF vs.err # Nil THEN DepOutcome(vs.err, "", 1, 1)
             ELSE IF NewVersion(vs.str) < 0
             THEN DepOutcome("ErrDependencyNotSatisfied", "", 1, 1)
             ELSE IF ~Check(dep.Version.Constraint, NewVersion(vs.str))
             THEN DepOutcome("ErrDependencyNotSatisfied",
                             dep.Version.Constraint, 1, 1)
             ELSE DepOutcome(Nil, "", 1, 1)
    ELSE DepOutcome(Nil, "", 1, 0)

\* errors.Is(err, api.RuntimeError) for the errors of the model
IsRuntimeError(err) ==
    err \in {"ErrDependencyNotSatisfied", "ErrRequiredFixture",
             "ErrTimeoutConflict"}

\* the dependencies drawn for a scenario, each with the host's answers
DepCases == [dep : Dependencies \cup {NilDependency}, env : HostEnvs]

\* what checkDependencies has done before its first checkDependency call
NoneChecked ==
    [err |-> Nil, at |-> 0, checked |-> 0, lookups |-> 0, probes |-> 0]

\* a verifier that goes on after an unsatisfied dependency and reports
\* the last one
RECURSIVE checkDependenciesLast(_, _, _)
checkDependenciesLast(deps, k, acc) ==
    IF k > Len(deps) THEN acc
    ELSE LET o == checkDependency(deps[k].dep, deps[k].env)
         IN  checkDependenciesLast(deps, k + 1,
                 [err |-> IF o.err # Nil THEN o.err ELSE acc.err,
                  at |-> IF o.err # Nil THEN k ELSE acc.at,
                  checked |-> k,
                  lookups |-> acc.lookups + o.lookups,
                  probes |-> acc.probes + o.probes])

\* the loop of checkDependencies from the k-th dependency on: the error of
\* the first unsatisfied dependency and its position (at), Nil after the
\* last one; checked counts the checkDependency calls, lookups the
\* exec.LookPath calls, probes the runs of a located binary
RECURSIVE checkDependencies(_, _, _)
checkDependencies(deps, k, acc) ==
    IF k > Len(deps) THEN acc
    ELSE LET o == checkDependency(deps[k].dep, deps[k].env)
             done == [err |-> o.err,
                      at |-> IF o.err # Nil THEN k ELSE 0,
                      checked |-> k,
                      lookups |-> acc.lookups + o.lookups,
                      probes |-> acc.probes + o.probes]
         IN  IF o.err # Nil THEN done
             ELSE checkDependencies(deps, k + 1, done)

\* --------------------------------------------------------- scenario state

VARIABLES
    s,               \* the Scenario: Depends, Fixtures, SkipIf, Tests
    subject,         \* type of the subject handed to Scenario.Run
    depsOutcome,     \* what checkDependencies returned and did
    pc,              \* where the goroutine that called Scenario.Run is
    idx,             \* index of the test spec the loop over s.Tests is at
    retErr,          \* the error Scenario.Run returned
    fixStarted,      \* fixtures whose Start returned nil, in start order
    fixStopped,      \* fixtures whose Stop was called, in call order
    skipEvals,       \* number of skip-if conditions evaluated
    rt,              \* per spec: rt of runSpec (what getRetry returned)
    to,              \* per spec: to of runSpec (what getTimeout returned)
    now,             \* the clock
    deadline,        \* per spec: deadline of the context.WithTimeout
    cancelled,       \* the context handed to Scenario.Run is cancelled
    ex,              \* per spec: where its execSpec goroutine is
    tk,              \* per spec: state of the backoff ticker of execSpec
    tkStart,         \* per spec: when the ticker's backoff was reset
    attempts,        \* per spec: attempts of execSpec
    evalCount,       \* per spec: number of spec.Eval invocations
    evalRet,         \* per spec: number of spec.Eval invocations returned
    res,             \* per spec: res of execSpec (the last Eval's Result)
    ch,              \* per spec: content of the channel ch of runSpec
    seen,            \* per spec: run data in the context its Evals get
    runData,         \* run data of the scenario's context (ctx)
    tu,              \* per spec: its TestUnit (standalone mode)
    rootUnit,        \* the scenario's root TestUnit (standalone mode)
    tt,              \* the testing.T of the subtest (host-native mode)
    scenCleanups,    \* scenCleanups of runExternal
    cleanupsRun,     \* the cleanups run, in order
    goCleanups,      \* the cleanups registered through t.Cleanup
    scenOK,          \* scenOK of runExternal
    scenarioResults, \* Run.scenarioResults[s.Path]
    cwd,             \* the working directory of the process
    specCancelled,   \* per spec: the deferred specCancel of runSpec has run
    units,           \* the TestUnits of a tree of test units
    tasks,           \* per task: the TestUnit method it is executing
    suite            \* a Suite, the calls its Run made and what Run returned

vars ==
    <<s, subject, depsOutcome, pc, idx, retErr, fixStarted, fixStopped,
      skipEvals, rt, to, now, deadline, cancelled, ex, tk,
      tkStart, attempts, evalCount, evalRet, res, ch, seen, runData, tu,
      rootUnit, tt, scenCleanups, cleanupsRun, goCleanups, scenOK,
      scenarioResults, cwd, specCancelled, units, tasks, suite>>

\* no Suite is run
NoSuite ==
    [Scenarios |-> <<>>, ctx |-> 0, subject |-> "", calls |-> <<>>,
     state |-> "none", err |-> Nil]

\* the variables of the test units called directly and of a Suite run
unitVars == <<units, tasks, suite>>

TestIdx == 0..(NumTests - 1)

\* the subject types drawn: *testing.T, *run.Run and anything else
Subjects == {"testing.T", "run.Run", "other"}

\* ------------------------------------------------------------- api.Result

\* names of run data variables, and the value of an unset name
DataNames == {"x", "y"}
NoData == [n \in DataNames |-> 0]

\* a nil *api.Result
NilResult ==
    [isNil |-> TRUE, failures |-> <<>>, hasData |-> FALSE, data |-> NoData,
     cleanups |-> <<>>]

\* identifies the k-th Eval invocation of test spec i (k >= 1)
CallId(i, k) == 10 * i + k

\* the names spec i can save run data under: every spec can write "x",
\* the odd ones "y" as well
DataNamesOf(i) == IF i % 2 = 0 THEN {"x"} ELSE {"x", "y"}

\* the Results the k-th Eval of spec i can return: no failure or two, no run
\* data or one of the spec's names set to the call's id, and one cleanup of
\* its own
EvalResults(i, k) ==
    {[isNil |-> FALSE, failures |-> f, hasData |-> d # "",
      data |-> [n \in DataNames |-> IF n = d THEN CallId(i, k) ELSE 0],
      cleanups |-> <<CallId(i, k)>>] :
        f \in {<<>>, <<10 * CallId(i, k) + 1, 10 * CallId(i, k) + 2>>},
        d \in {""} \cup DataNamesOf(i)}

\* Result.Failed
Failed(r) == Len(r.failures) > 0

\* gdtcontext.SetRun: the Result's data merged over the context's run data
SetRun(ctxData, r) ==
    [n \in DataNames |-> IF r.data[n] # 0 THEN r.data[n] ELSE ctxData[n]]

\* a loop over s.Tests that never puts a Result's data in the context
KeepRunData(ctxData, r) == ctxData

\* if res.HasData() { ctx = gdtcontext.SetRun(ctx, res.Data()) }
UpdateRunData(ctxData, r) ==
    IF r.hasData THEN SetRun(ctxData, r) ELSE ctxData

\* a message on the channel ch; NoMsg is the empty channel
NoMsg == [full |-> FALSE, r |-> NilResult, err |-> Nil]

\* a message that loses the error of Eval
runSpecResNoErr(r, err) == [full |-> TRUE, r |-> r, err |-> Nil]

\* runSpecRes{r, err}
runSpecRes(r, err) == [full |-> TRUE, r |-> r, err |-> err]

\* --------------------------------------------------------------- TestUnit

\* testunit.New
NewTestUnit ==
    [created |-> TRUE, failed |-> FALSE, failures |-> <<>>, skipped |-> FALSE,
     done |-> FALSE]
NoTestUnit == [NewTestUnit EXCEPT !.created = FALSE]

\* the failure runSpec reports when the deadline branch is taken
TimeoutFailure == 999

\* TestUnit.Fatalf on a unit that is not done: Errorf, then FailNow
Fatalf(u, failure) ==
    [u EXCEPT !.failures = Append(u.failures, failure), !.failed = TRUE,
              !.done = TRUE]

\* TestUnit.FailNow on a unit that is not done: Fail, then finish
FailNow(u) == [u EXCEPT !.failed = TRUE, !.done = TRUE]

\* -------------------------------------------------------------- scenarios

\* a plain dependency on a program, and the host answers drawn for it
PlainDep(name) ==
    [kind |-> "dep", Name |-> name, hasWhen |-> FALSE, OS |-> "",
     Version |-> NilVersion]
EnvLook(l) == [look |-> l, probe |-> [err |-> FALSE, out |-> "2.0.0"]]

\* the dependencies drawn for a scenario run: programs that are on the
\* search path or are not
RunDepCases ==
    {[dep |-> PlainDep("myapp"), env |-> EnvLook("found")],
     [dep |-> PlainDep("myapp"), env |-> EnvLook("ErrNotFound")],
     [dep |-> PlainDep("other"), env |-> EnvLook("ErrNotFound")]}

SeqsUpTo(S, n) == UNION {[1..k -> S] : k \in 0..n}

\* a spec configured through the fields of its base only
BaseLevels(r, t) ==
    [evalRetry |-> NilRetry, baseRetry |-> r, hasDefaults |-> FALSE,
     defaultsRetry |-> NilRetry, pluginRetry |-> NilRetry,
     evalTimeout |-> NilTimeout, baseTimeout |-> t,
     defaultsTimeout |-> NilTimeout, pluginTimeout |-> NilTimeout]

\* a test spec: its retry/timeout configuration and its sb.Wait durations
\* (0: the field is not set)
SpecCfg(lv, before, after) == [lv |-> lv, Before |-> before, After |-> after]

\* a spec with no retry, timeout or wait configured anywhere
PlainSpec == SpecCfg(BaseLevels(NilRetry, NilTimeout), 0, 0)

\* the specs of the scenarios that exercise the loop over s.Tests: retry
\* unset, disabled or bounded, or a timeout of one clock unit
LoopSpecCfgs ==
    {SpecCfg(BaseLevels(r, NilTimeout), 0, 0) :
        r \in {NilRetry, NoRetry, RetryPolicy(2, FALSE)}}
    \cup {SpecCfg(BaseLevels(NilRetry, Timeout(1)), 0, 0)}

\* the specs of the one-spec scenarios that exercise runSpec and execSpec
ExecSpecCfgs ==
    {SpecCfg(BaseLevels(r, t), 0, 0) : r \in RetryVals, t \in TimeoutVals}
    \cup {SpecCfg(BaseLevels(NilRetry, t), b, a) :
             t \in TimeoutVals, b \in 0..1, a \in 0..1}

\* the Timings of a scenario and the deadline of the host test: whether
\* t.Deadline() reports one, the time left until it (GoTestTimeout), the
\* scenario's total wait and its largest timeout (0: none configured)
TimingCases ==
    [hasDeadline : BOOLEAN, GoTestTimeout : 1..2, TotalWait : 0..2,
     MaxTimeout : 0..2]

\* a host test without a deadline (go test -timeout 0)
NoDeadline ==
    [hasDeadline |-> FALSE, GoTestTimeout |-> 1, TotalWait |-> 0,
     MaxTimeout |-> 0]

\* the working directory Scenario.Run is called in, and the directories
\* that exist on the host
StartDir == "/work"
ExistingDirs == {"/work", "/work/testdata"}

\* the Scenario.Path values drawn: none, a file in a directory that exists,
\* a file in a directory that does not
NoPath == ""
ScenarioPath == "testdata/scenario.yaml"
Paths == {NoPath, ScenarioPath, "/no/such/dir/x.yaml"}

\* filepath.Dir
Dir(path) ==
    CASE path = "testdata/scenario.yaml" -> "testdata"
      [] path = "/no/such/dir/x.yaml" -> "/no/such/dir"
      [] OTHER -> "."

\* os.Chdir(dir) in the working directory from: the new working directory
\* and the error
Chdir(from, dir) ==
    LET target == CASE dir = "." -> from
                    [] dir = "testdata" -> "/work/testdata"
                    [] OTHER -> dir
    IN  IF target \in ExistingDirs THEN [cwd |-> target, err |-> Nil]
        ELSE [cwd |-> from, err |-> "chdir error"]

Scenario(deps, nfix, nskip, tests) ==
    [Path |-> ScenarioPath, Depends |-> deps, Fixtures |-> nfix,
     SkipIf |-> nskip, Tests |-> tests, Timings |-> NoDeadline]

\* scenarios with a path, dependencies, fixtures and skip-if conditions
\* before one plain spec
PrologueScenarios ==
    {[Scenario(d, f, k, [i \in {0} |-> PlainSpec]) EXCEPT !.Path = p] :
        d \in SeqsUpTo(RunDepCases, MaxDeps), f \in 0..MaxFixtures,
        k \in 0..MaxSkipIf, p \in Paths}

\* scenarios with fixtures and skip-if conditions before one plain spec, run
\* by a host test with or without a deadline
ConflictScenarios ==
    {[Scenario(<<>>, f, k, [i \in {0} |-> PlainSpec])
         EXCEPT !.Timings = tm] :
        f \in 0..MaxFixtures, k \in 0..MaxSkipIf, tm \in TimingCases}

\* scenarios of NumTests specs, at most one of them configured, and
\* nothing before them
LoopScenarios ==
    {Scenario(<<>>, 0, 0, t) :
        t \in {u \in [TestIdx -> LoopSpecCfgs] :
                 Cardinality({i \in TestIdx : u[i] # PlainSpec}) <= 1}}

\* scenarios of one spec and nothing before it
ExecScenarios ==
    {Scenario(<<>>, 0, 0, [i \in {0} |-> c]) : c \in ExecSpecCfgs}

\* scenarios of two specs that each have a timeout, and nothing before them
DeadlineScenarios ==
    {Scenario(<<>>, 0, 0,
              [i \in 0..1 |->
                  SpecCfg(BaseLevels(NilRetry, IF i = 0 THEN t0 ELSE t1),
                          0, 0)]) :
        t0 \in TimeoutVals \ {NilTimeout}, t1 \in TimeoutVals \ {NilTimeout}}

\* len(s.Tests)
NumSpecs == Cardinality(DOMAIN s.Tests)

\* ------------------------------------------------------------------- Init

\* the variables of runExternal and runGo when Scenario.Run is called
InitLoopVars ==
    /\ idx = 0
    /\ retErr = Nil
    /\ fixStarted = <<>>
    /\ fixStopped = <<>>
    /\ skipEvals = 0
    /\ rt = [i \in TestIdx |-> NilRetry]
    /\ to = [i \in TestIdx |-> NilTimeout]
    /\ now = 0
    /\ deadline = [i \in TestIdx |-> 0]
    /\ cancelled = FALSE
    /\ ex = [i \in TestIdx |-> "none"]
    /\ tk = [i \in TestIdx |-> "none"]
    /\ tkStart = [i \in TestIdx |-> 0]
    /\ attempts = [i \in TestIdx |-> 0]
    /\ evalCount = [i \in TestIdx |-> 0]
    /\ evalRet = [i \in TestIdx |-> 0]
    /\ res = [i \in TestIdx |-> NilResult]
    /\ ch = [i \in TestIdx |-> NoMsg]
    /\ seen = [i \in TestIdx |-> NoData]
    /\ runData = NoData
    /\ tu = [i \in TestIdx |-> NoTestUnit]
    /\ rootUnit = NoTestUnit
    /\ tt = NoTestUnit
    /\ scenCleanups = <<>>
    /\ cleanupsRun = <<>>
    /\ goCleanups = <<>>
    /\ scenOK = TRUE
    /\ scenarioResults = <<>>
    /\ cwd = StartDir
    /\ specCancelled = [i \in TestIdx |-> FALSE]

\* the state Scenario.Run is called in; no TestUnit is called directly
InitRun ==
    /\ units = <<>>
    /\ tasks = <<>>
    /\ suite = NoSuite
    /\ depsOutcome = NoneChecked
    /\ InitLoopVars

\* Scenario.Run is about to be called
Init ==
    /\ \/ s \in PrologueScenarios /\ subject \in Subjects
       \/ s \in ConflictScenarios /\ subject = "testing.T"
       \/ s \in LoopScenarios \cup ExecScenarios \cup DeadlineScenarios
          /\ subject \in {"testing.T", "run.Run"}
    /\ pc = "Run"
    /\ InitRun

\* ---------------------------------------------------- leaving Scenario.Run

\* the variables of the loop over s.Tests, which the prologue leaves alone
UnchangedSpecs ==
    UNCHANGED <<rt, to, now, deadline, ex, tk, tkStart, attempts, evalCount,
                evalRet, res, ch, seen, runData, tu, tt, scenCleanups,
                cleanupsRun, goCleanups, scenOK, scenarioResults,
                specCancelled>>

\* the deferred os.Chdir(cwd) of Scenario.Run, which is deferred only for a
\* scenario with a path: the working directory the call started in
RestoredDir == IF s.Path # NoPath THEN StartDir ELSE cwd

\* a return that runs the deferred fix.Stop calls first deferred first
ReturnStopsInStartOrder(err) ==
    /\ pc' = "returned"
    /\ retErr' = err
    /\ fixStopped' = fixStarted
    /\ cwd' = RestoredDir
    /\ UNCHANGED fixStarted

\* runExternal / runGo return err: the deferred fix.Stop calls run, last
\* deferred first, then the deferred os.Chdir of Scenario.Run
Return(err) ==
    /\ pc' = "returned"
    /\ retErr' = err
    /\ fixStopped' = Reverse(fixStarted)
    /\ cwd' = RestoredDir
    /\ UNCHANGED fixStarted

\* a panic on the goroutine running runExternal: the deferred fix.Stop calls
\* and the deferred os.Chdir run while the stack unwinds, and nothing is
\* returned
Panic ==
    /\ pc' = "panicked"
    /\ fixStopped' = Reverse(fixStarted)
    /\ cwd' = RestoredDir
    /\ UNCHANGED <<retErr, fixStarted>>

\* a panic on the goroutine of the subtest of runGo: before the test binary
\* ends, with runGo still waiting in t.Run, the testing package calls the
\* functions registered through t.Cleanup, last registered first
PanicInSubtest ==
    /\ pc' = "panicked"
    /\ cleanupsRun' = Reverse(goCleanups)
    /\ UNCHANGED <<retErr, fixStopped, fixStarted, cwd>>

\* ------------------------------------------------------------ Scenario.Run

\* a conflict check that looks at the total wait only
hasWaitConflictOnly(tm) ==
    /\ tm.hasDeadline
    /\ tm.TotalWait > 0 /\ tm.TotalWait > tm.GoTestTimeout

\* hasTimeoutConflict: the durations are compared through Duration.Abs
hasTimeoutConflict(tm) ==
    LET Abs(d) == IF d < 0 THEN 0 - d ELSE d
    IN  /\ tm.hasDeadline
        /\ \/ tm.TotalWait > 0 /\ Abs(tm.TotalWait) > Abs(tm.GoTestTimeout)
           \/ tm.MaxTimeout > 0
              /\ Abs(tm.MaxTimeout) > Abs(tm.GoTestTimeout)

\* the first statement of Scenario.Run: with a path, os.Chdir to the
\* directory of the scenario's file
EnterScenarioDir ==
    IF s.Path # NoPath THEN Chdir(cwd, Dir(s.Path))
    ELSE [cwd |-> cwd, err |-> Nil]

\* a Scenario.Run that hands every subject to runExternal
RunWithoutTypeSwitch ==
    /\ pc = "Run"
    /\ LET cd == EnterScenarioDir
       IN  IF cd.err # Nil
           THEN /\ pc' = "returned"
                /\ retErr' = cd.err
                /\ UNCHANGED <<depsOutcome, rootUnit, cwd>>
           ELSE /\ depsOutcome' = checkDependencies(s.Depends, 1, NoneChecked)
                /\ IF depsOutcome'.err # Nil
                   THEN /\ pc' = "returned"
                        /\ retErr' = depsOutcome'.err
                        /\ cwd' = RestoredDir
                        /\ UNCHANGED rootUnit
                   ELSE /\ pc' = "fixtures"
                        /\ rootUnit' = NewTestUnit
                        /\ cwd' = cd.cwd
                        /\ UNCHANGED retErr
    /\ UNCHANGED <<unitVars, s, subject, idx, fixStarted, fixStopped,
                   skipEvals, cancelled>>
    /\ UnchangedSpecs

\* Scenario.Run up to the call of runGo / runExternal, and the prologue of
\* these: the change to the directory of the scenario's file, whose failure
\* is returned as it is; checkDependencies; the type switch; the timeout
\* conflict check of runGo; the root TestUnit of runExternal. A return runs
\* the deferred os.Chdir back
Run ==
    /\ pc = "Run"
    /\ LET cd == EnterScenarioDir
       IN  IF cd.err # Nil
           THEN /\ pc' = "returned"
                /\ retErr' = cd.err
                /\ UNCHANGED <<depsOutcome, rootUnit, cwd>>
           ELSE /\ depsOutcome' = checkDependencies(s.Depends, 1, NoneChecked)
                /\ IF depsOutcome'.err # Nil
                   THEN /\ pc' = "returned"
                        /\ retErr' = depsOutcome'.err
                        /\ cwd' = RestoredDir
                        /\ UNCHANGED rootUnit
                   ELSE IF subject = "testing.T"
                   THEN /\ IF hasTimeoutConflict(s.Timings)
                           THEN /\ pc' = "returned"
                                /\ retErr' = "ErrTimeoutConflict"
                                /\ cwd' = RestoredDir
                           ELSE /\ pc' = "fixtures"
                                /\ retErr' = Nil
                                /\ cwd' = cd.cwd
                        /\ UNCHANGED rootUnit
                   ELSE IF subject = "run.Run"
                   THEN /\ pc' = "fixtures"
                        /\ rootUnit' = NewTestUnit
                        /\ cwd' = cd.cwd
                        /\ UNCHANGED retErr
                   ELSE /\ pc' = "returned"
                        /\ retErr' = "unknown run type"
                        /\ cwd' = RestoredDir
                        /\ UNCHANGED rootUnit
    /\ UNCHANGED <<unitVars, s, subject, idx, fixStarted, fixStopped, skipEvals,
                   cancelled>>
    /\ UnchangedSpecs

\* a loop over s.Fixtures that skips the fixtures that are not registered
StartFixtureIfRegistered ==
    /\ pc = "fixtures"
    /\ Len(fixStarted) < s.Fixtures
    /\ \E outcome \in {"missing", "start error", "started"} :
         CASE outcome = "missing" ->
                /\ pc' = "skipif"
                /\ UNCHANGED <<retErr, fixStarted, fixStopped, cwd>>
           [] outcome = "start error" -> Return("fixture start error")
           [] OTHER ->
                /\ fixStarted' = Append(fixStarted, Len(fixStarted) + 1)
                /\ UNCHANGED <<pc, retErr, fixStopped, cwd>>
    /\ UNCHANGED <<unitVars, s, subject, depsOutcome, idx, skipEvals,
                   cancelled, rootUnit>>
    /\ UnchangedSpecs

\* one round of the loop over s.Fixtures: the fixture is not registered, its
\* Start fails, or it is started and its Stop deferred
StartFixture ==
    /\ pc = "fixtures"
    /\ Len(fixStarted) < s.Fixtures
    /\ \E outcome \in {"missing", "start error", "started"} :
         CASE outcome = "missing" -> Return("ErrRequiredFixture")
           [] outcome = "start error" -> Return("fixture start error")
           [] OTHER ->
                /\ fixStarted' = Append(fixStarted, Len(fixStarted) + 1)
                /\ UNCHANGED <<pc, retErr, fixStopped, cwd>>
    /\ UNCHANGED <<unitVars, s, subject, depsOutcome, idx, skipEvals, cancelled,
                   rootUnit>>
    /\ UnchangedSpecs

\* the loop over s.Fixtures is over
FixturesStarted ==
    /\ pc = "fixtures"
    /\ Len(fixStarted) = s.Fixtures
    /\ pc' = "skipif"
    /\ UNCHANGED <<unitVars, s, subject, depsOutcome, idx, retErr, fixStarted,
                   fixStopped, skipEvals, cancelled, rootUnit, cwd>>
    /\ UnchangedSpecs

\* one round of the loop over s.SkipIf: Eval of the condition returns an
\* error, a Result without failures (the scenario is skipped) or a Result
\* with failures. t.Skipf of the host ends the calling goroutine, running
\* its deferred calls; rootUnit.Skipf ends in SkipNow, which takes the
\* unit's lock and calls finish, which waits for that lock
EvalSkipIf ==
    /\ pc = "skipif"
    /\ skipEvals < s.SkipIf
    /\ skipEvals' = skipEvals + 1
    /\ \E outcome \in {"error", "passed", "failed"} :
         CASE outcome = "error" ->
                Return("skip-if error") /\ UNCHANGED rootUnit
           [] outcome = "passed" /\ subject = "testing.T" ->
                /\ pc' = "goexit"
                /\ fixStopped' = Reverse(fixStarted)
                /\ cwd' = RestoredDir
                /\ UNCHANGED <<retErr, rootUnit>>
           [] outcome = "passed" /\ subject # "testing.T" ->
                /\ pc' = "blocked"
                /\ rootUnit' = [rootUnit EXCEPT !.skipped = TRUE]
                /\ UNCHANGED <<retErr, fixStopped, cwd>>
           [] OTHER -> UNCHANGED <<pc, retErr, fixStopped, rootUnit, cwd>>
    /\ UNCHANGED <<unitVars, s, subject, depsOutcome, idx, fixStarted, cancelled>>
    /\ UnchangedSpecs

\* the loop over s.SkipIf is over
SkipIfEvaluated ==
    /\ pc = "skipif"
    /\ skipEvals = s.SkipIf
    /\ pc' = "loop"
    /\ UNCHANGED <<unitVars, s, subject, depsOutcome, idx, retErr, fixStarted,
                   fixStopped, skipEvals, cancelled, rootUnit, cwd>>
    /\ UnchangedSpecs

\* ----------------------------------------------------------------- runSpec

\* the context of spec i is ended from outside runSpec: the scenario's
\* context is cancelled or the deadline of context.WithTimeout has passed
ctxExpired(i) ==
    \/ cancelled
    \/ to[i] # NilTimeout /\ now >= deadline[i]

\* specCtx of spec i is done: it is cancelled or past its deadline, or the
\* deferred specCancel has run because runSpec returned or unwound
ctxDone(i) ==
    \/ ctxExpired(i)
    \/ specCancelled[i]

\* the variables of the prologue, which the loop over s.Tests leaves alone
UnchangedPrologue ==
    UNCHANGED <<unitVars, s, subject, depsOutcome, fixStarted, skipEvals, rootUnit>>

\* a deadline set before the wait before is slept
WithTimeoutBeforeWait(start, timeout) ==
    start - s.Tests[idx].Before + timeout.After

\* a context that keeps the deadline of the first timeout set in the run
WithTimeoutOfFirst(start, timeout) ==
    LET earlier == {j \in DOMAIN s.Tests : j < idx /\ to[j] # NilTimeout}
    IN  IF earlier = {} THEN start + timeout.After
        ELSE deadline[CHOOSE j \in earlier : \A k \in earlier : j <= k]

\* context.WithTimeout(specCtx, to.Duration()) called at time start: the
\* deadline of the context of the spec. specCtx is a child of the scenario's
\* context, which has no deadline of its own
WithTimeout(start, timeout) == start + timeout.After

\* runSpec up to its select: the loop's TestUnit (runExternal) or the
\* subtest's testing.T (runGo), getRetry and getTimeout, the wait before,
\* context.WithTimeout, and the go statement that starts execSpec
RunSpecBegin ==
    /\ pc = "loop"
    /\ idx < NumSpecs
    /\ LET spec == s.Tests[idx]
           timeout == getTimeout(spec.lv)
       IN  /\ rt' = [rt EXCEPT ![idx] = getRetry(spec.lv)]
           /\ to' = [to EXCEPT ![idx] = timeout]
           /\ now' = now + spec.Before
           /\ deadline' = [deadline EXCEPT ![idx] = WithTimeout(now', timeout)]
    /\ IF subject = "run.Run"
       THEN tu' = [tu EXCEPT ![idx] = NewTestUnit] /\ UNCHANGED tt
       ELSE tt' = [tt EXCEPT !.created = TRUE] /\ UNCHANGED tu
    /\ seen' = [seen EXCEPT ![idx] = runData]
    /\ ex' = [ex EXCEPT ![idx] = "spawned"]
    /\ pc' = "select"
    /\ UNCHANGED <<idx, retErr, fixStopped, cancelled, tk, tkStart, attempts,
                   evalCount, evalRet, res, ch, runData, scenCleanups,
                   cleanupsRun, goCleanups, scenOK, scenarioResults, cwd,
                   specCancelled>>
    /\ UnchangedPrologue

\* time passes while runSpec waits in its select; the clock is followed
\* where something reads it: a deadline or the backoff's elapsed time
Tick ==
    /\ pc = "select"
    /\ now < MaxTime
    /\ to[idx] # NilTimeout \/ rt[idx].Exponential
    /\ now' = now + 1
    /\ UNCHANGED <<idx, pc, retErr, fixStopped, rt, to, deadline, cancelled,
                   ex, tk, tkStart, attempts, evalCount, evalRet, res, ch,
                   seen, runData, tu, tt, scenCleanups, cleanupsRun,
                   goCleanups, scenOK, scenarioResults, cwd, specCancelled>>
    /\ UnchangedPrologue

\* the caller of Scenario.Run cancels the context it handed in
Cancel ==
    /\ pc = "select"
    /\ ~cancelled
    /\ cancelled' = TRUE
    /\ UNCHANGED <<idx, pc, retErr, fixStopped, rt, to, now, deadline, ex, tk,
                   tkStart, attempts, evalCount, evalRet, res, ch, seen,
                   runData, tu, tt, scenCleanups, cleanupsRun, goCleanups,
                   scenOK, scenarioResults, cwd, specCancelled>>
    /\ UnchangedPrologue

\* the end of runExternal: the accumulated cleanups are reversed and, if
\* every unit passed, run; runErr is returned
FinishExternal(err, cleanups, ok) ==
    /\ scenCleanups' = Reverse(cleanups)
    /\ cleanupsRun' = IF ok THEN Reverse(cleanups) ELSE <<>>
    /\ Return(err)

\* the case <-specCtx.Done() of the select of runSpec. The failure message
\* reads to.After: with no timeout resolved, to is nil, and the panic
\* unwinds runSpec. TestUnit.Fatalf returns to runSpec, which goes on to
\* its wait after with execSpec still running; testing.T.Fatalf ends the
\* goroutine of the subtest, which runs the deferred specCancel, so t.Run
\* and runGo return.
SelectDone ==
    /\ pc = "select"
    /\ ctxDone(idx)
    /\ IF to[idx] = NilTimeout
       THEN /\ IF subject = "run.Run"
               THEN Panic /\ UNCHANGED cleanupsRun
               ELSE PanicInSubtest
            /\ specCancelled' = [specCancelled EXCEPT ![idx] = TRUE]
            /\ UNCHANGED <<tu, tt>>
       ELSE IF subject = "run.Run"
       THEN /\ tu' = [tu EXCEPT ![idx] = Fatalf(tu[idx], TimeoutFailure)]
            /\ pc' = "timedout"
            /\ UNCHANGED <<tt, retErr, fixStopped, cwd, cleanupsRun,
                           specCancelled>>
       ELSE /\ tt' = Fatalf(tt, TimeoutFailure)
            /\ Return(Nil)
            /\ specCancelled' = [specCancelled EXCEPT ![idx] = TRUE]
            /\ UNCHANGED <<tu, cleanupsRun>>
    /\ UNCHANGED <<idx, rt, to, now, deadline, cancelled, ex, tk, tkStart,
                   attempts, evalCount, evalRet, res, ch, seen, runData,
                   scenCleanups, goCleanups, scenOK, scenarioResults>>
    /\ UnchangedPrologue

\* a loop over s.Tests that registers the cleanups of a Result only after
\* its failures were reported without ending the subtest
RegisterCleanupsIfPassed(registered, r) ==
    IF Failed(r) THEN registered ELSE registered \o r.cleanups

\* for _, cleanup := range res.Cleanups() { t.Cleanup(cleanup) }
RegisterCleanups(registered, r) == registered \o r.cleanups

\* a StoreResult that keeps only the newest record of a path
StoreResultReplacing(results, index, unit, r) ==
    <<[index |-> index, skipped |-> unit.skipped, failures |-> r.failures]>>

\* Run.StoreResult
StoreResult(results, index, unit, r) ==
    Append(results,
           [index |-> index, skipped |-> unit.skipped,
            failures |-> r.failures])

\* Run.StoreResult on the map Run.scenarioResults: the list of path is made
\* if the map has none, and the record is appended to it
RunStoreResult(byPath, path, index, unit, r) ==
    [q \in DOMAIN byPath \cup {path} |->
        IF q = path
        THEN StoreResult(IF path \in DOMAIN byPath THEN byPath[path]
                         ELSE <<>>,
                         index, unit, r)
        ELSE byPath[q]]

\* TestUnitResult.OK
TestUnitResultOK(u) == Len(u.failures) = 0

\* Run.scenarioResults, the map keyed by the Scenario path: StoreResult
\* makes the key of a path at the first record stored under it
RunScenarioResults ==
    [p \in (IF scenarioResults = <<>> THEN {} ELSE {s.Path}) |->
        scenarioResults]

\* Run.OK: no value of the map is a slice without a record that has zero
\* failures
RunOK(byPath) ==
    ~ \E p \in DOMAIN byPath :
         ~ \E k \in DOMAIN byPath[p] : Len(byPath[p][k].failures) = 0

\* what a method of api.Result does on a nil *api.Result: it reads a field
\* of its receiver and panics, or it tests the receiver and answers as an
\* empty Result does
NilResultCalls == {"panic", "empty"}

\* runSpec after the TestUnit.Fatalf of its done case, in standalone mode:
\* err is nil, so the wait after is slept and the nil Result returned (the
\* deferred specCancel runs); runExternal then asks the nil Result for its
\* Cleanups, its data and its Failures, stores the record of the unit and
\* goes on with the next spec
ReturnAfterTimeout ==
    /\ pc = "timedout"
    /\ now' = now + s.Tests[idx].After
    /\ specCancelled' = [specCancelled EXCEPT ![idx] = TRUE]
    /\ \E call \in NilResultCalls :
         IF call = "panic"
         THEN /\ Panic
              /\ UNCHANGED <<idx, scenCleanups, runData, scenOK,
                             scenarioResults>>
         ELSE /\ scenCleanups' = scenCleanups \o NilResult.cleanups
              /\ runData' = UpdateRunData(runData, NilResult)
              /\ scenOK' = (scenOK /\ ~tu[idx].failed)
              /\ scenarioResults' =
                   StoreResult(scenarioResults, idx, tu[idx], NilResult)
              /\ idx' = idx + 1
              /\ pc' = "loop"
              /\ UNCHANGED <<retErr, fixStopped, cwd>>
    /\ UNCHANGED <<rt, to, deadline, cancelled, ex, tk, tkStart,
                   attempts, evalCount, evalRet, res, ch, seen, tu,
                   tt, cleanupsRun, goCleanups>>
    /\ UnchangedPrologue

\* the case runres := <-ch of the select of runSpec, and what follows it to
\* the top of the loop over s.Tests: an error ends the loop; otherwise the
\* wait after, the cleanups, the run data and the failures of the Result
SelectRecv ==
    /\ pc = "select"
    /\ ch[idx].full
    /\ ch' = [ch EXCEPT ![idx] = NoMsg]
    /\ specCancelled' = [specCancelled EXCEPT ![idx] = TRUE]
    /\ LET r == ch[idx].r
           err == ch[idx].err
       IN  IF err # Nil
           THEN /\ IF subject = "run.Run"
                   THEN FinishExternal(err, scenCleanups, scenOK)
                   ELSE Return(err) /\ UNCHANGED <<scenCleanups, cleanupsRun>>
                /\ UNCHANGED <<idx, now, runData, tu, tt, goCleanups, scenOK,
                               scenarioResults>>
           ELSE /\ now' = now + s.Tests[idx].After
                /\ runData' = UpdateRunData(runData, r)
                /\ IF subject = "run.Run"
                   THEN /\ scenCleanups' = scenCleanups \o r.cleanups
                        /\ tu' = [tu EXCEPT ![idx] =
                                    IF Failed(r) THEN FailNow(tu[idx])
                                    ELSE tu[idx]]
                        /\ scenOK' = (scenOK /\ ~tu'[idx].failed)
                        /\ scenarioResults' =
                             StoreResult(scenarioResults, idx, tu'[idx], r)
                        /\ idx' = idx + 1
                        /\ pc' = "loop"
                        /\ UNCHANGED <<retErr, fixStopped, tt, cleanupsRun,
                                       goCleanups, cwd>>
                   ELSE /\ goCleanups' = RegisterCleanups(goCleanups, r)
                        /\ IF Failed(r)
                           THEN /\ tt' = Fatalf(tt, Head(r.failures))
                                /\ Return(Nil)
                                /\ UNCHANGED idx
                           ELSE /\ idx' = idx + 1
                                /\ pc' = "loop"
                                /\ UNCHANGED <<tt, retErr, fixStopped, cwd>>
                        /\ UNCHANGED <<tu, scenCleanups, cleanupsRun, scenOK,
                                       scenarioResults>>
    /\ UNCHANGED <<rt, to, deadline, cancelled, ex, tk, tkStart, attempts,
                   evalCount, evalRet, res, seen>>
    /\ UnchangedPrologue

\* the loop over s.Tests is over: runExternal runs the cleanups and returns
\* runErr, t.Run and runGo return
LoopEnd ==
    /\ pc = "loop"
    /\ idx = NumSpecs
    /\ IF subject = "run.Run"
       THEN FinishExternal(Nil, scenCleanups, scenOK)
       ELSE Return(Nil) /\ UNCHANGED <<scenCleanups, cleanupsRun>>
    /\ UNCHANGED <<idx, rt, to, now, deadline, cancelled, ex, tk, tkStart,
                   attempts, evalCount, evalRet, res, ch, seen, runData, tu,
                   tt, goCleanups, scenOK, scenarioResults, specCancelled>>
    /\ UnchangedPrologue

\* the host test t ends after runGo returned or t.Skipf ended its goroutine:
\* the functions registered through t.Cleanup are called, last registered
\* first
HostCleanups ==
    /\ subject = "testing.T"
    /\ pc \in {"returned", "goexit"}
    /\ goCleanups # <<>>
    /\ cleanupsRun = <<>>
    /\ cleanupsRun' = Reverse(goCleanups)
    /\ UNCHANGED <<idx, pc, retErr, fixStopped, rt, to, now, deadline,
                   cancelled,
                   ex, tk, tkStart, attempts, evalCount, evalRet, res, ch,
                   seen, runData, tu, tt, scenCleanups, goCleanups, scenOK,
                   scenarioResults, cwd, specCancelled>>
    /\ UnchangedPrologue

\* ---------------------------------------------------------------- execSpec

\* the Eval calls the model follows for one spec; a retry policy without a
\* bound on its attempts is followed up to this many
MaxEvals == MaxAttempts + 1

\* backoff.DefaultMaxElapsedTime of the exponential backoff, on the model's
\* clock
MaxElapsedTime == MaxTime - 1

\* what the variables of the loop over s.Tests keep while execSpec steps
UnchangedCoordinator ==
    UNCHANGED <<idx, pc, retErr, fixStopped, rt, to, now, deadline, cancelled,
                seen, runData, tu, tt, scenCleanups, cleanupsRun, goCleanups,
                scenOK, scenarioResults, cwd, specCancelled>>

\* the process has not crashed: its goroutines run
Alive == pc # "panicked"

\* the retry resolved for spec i asks for a single Eval
SingleShot(i) == rt[i] \in {NilRetry, NoRetry}

\* whether the deadline of the context of spec i can be nearer than the
\* next delay of its backoff: only a context made by WithTimeout has one
DeadlineNear(i) == IF to[i] # NilTimeout THEN BOOLEAN ELSE {FALSE}

\* Ticker.send after a delivered tick: NextBackOff of the backoff wrapped
\* in the context stops once the context is done or when its deadline is
\* nearer than the next delay (near), and the exponential backoff once
\* MaxElapsedTime has passed since the ticker's start
NextBackOff(i, near) ==
    IF \/ ctxDone(i)
       \/ near
       \/ rt[i].Exponential /\ now - tkStart[i] > MaxElapsedTime
    THEN "closed" ELSE "wait"

\* the call of plugin Eval; the call returns later, or never
CallEval(i) ==
    /\ evalCount' = [evalCount EXCEPT ![i] = @ + 1]
    /\ \E e \in {"eval", "hung"} : ex' = [ex EXCEPT ![i] = e]

\* execSpec starts: one Eval when no retry applies, else the ticker of
\* the backoff, whose first tick is ready at once
ExecStart(i) ==
    /\ Alive
    /\ ex[i] = "spawned"
    /\ IF SingleShot(i)
       THEN /\ CallEval(i)
            /\ UNCHANGED <<tk, tkStart, attempts>>
       ELSE /\ tk' = [tk EXCEPT ![i] = "tick"]
            /\ tkStart' = [tkStart EXCEPT ![i] = now]
            /\ attempts' = [attempts EXCEPT ![i] = 1]
            /\ ex' = [ex EXCEPT ![i] = "loop"]
            /\ UNCHANGED evalCount
    /\ UNCHANGED <<evalRet, res, ch>>
    /\ UnchangedCoordinator
    /\ UnchangedPrologue

\* a loop that allows one attempt more than the bound
ExceededMaxAttemptsLate(i) ==
    rt[i].Attempts > 0 /\ attempts[i] > rt[i].Attempts + 1

\* the test at the top of the retry loop:
\* (maxAttempts > 0) && (attempts > maxAttempts)
ExceededMaxAttempts(i) ==
    rt[i].Attempts > 0 /\ attempts[i] > rt[i].Attempts

\* the retry loop receives a tick: past the attempt bound it stops the
\* ticker and sends the last Result, else it calls Eval
ExecTick(i) ==
    /\ Alive
    /\ ex[i] = "loop"
    /\ tk[i] = "tick"
    /\ IF ExceededMaxAttempts(i)
       THEN /\ tk' = [tk EXCEPT ![i] = "closed"]
            /\ ch' = [ch EXCEPT ![i] = runSpecRes(res[i], Nil)]
            /\ ex' = [ex EXCEPT ![i] = "done"]
            /\ UNCHANGED evalCount
       ELSE /\ evalCount[i] < MaxEvals
            /\ CallEval(i)
            /\ \E near \in DeadlineNear(i) :
                  tk' = [tk EXCEPT ![i] = NextBackOff(i, near)]
            /\ UNCHANGED ch
    /\ UNCHANGED <<tkStart, attempts, evalRet, res>>
    /\ UnchangedCoordinator
    /\ UnchangedPrologue

\* the ticker's timer fires: the next tick is ready
TickerFire(i) ==
    /\ Alive
    /\ tk[i] = "wait"
    /\ tk' = [tk EXCEPT ![i] = "tick"]
    /\ UNCHANGED <<ex, tkStart, attempts, evalCount, evalRet, res, ch>>
    /\ UnchangedCoordinator
    /\ UnchangedPrologue

\* the ticker sees its context done while waiting for the timer: it closes
\* its channel
TickerCtxDone(i) ==
    /\ Alive
    /\ tk[i] = "wait"
    /\ ctxDone(i)
    /\ tk' = [tk EXCEPT ![i] = "closed"]
    /\ UNCHANGED <<ex, tkStart, attempts, evalCount, evalRet, res, ch>>
    /\ UnchangedCoordinator
    /\ UnchangedPrologue

\* the range over the ticker's channel ends because the channel is closed:
\* the last Result is sent
ExecLoopClosed(i) ==
    /\ Alive
    /\ ex[i] = "loop"
    /\ tk[i] = "closed"
    /\ ch' = [ch EXCEPT ![i] = runSpecRes(res[i], Nil)]
    /\ ex' = [ex EXCEPT ![i] = "done"]
    /\ UNCHANGED <<tk, tkStart, attempts, evalCount, evalRet, res>>
    /\ UnchangedCoordinator
    /\ UnchangedPrologue

\* Eval returns an error: it is sent with no Result, and execSpec returns
EvalFault(i) ==
    /\ Alive
    /\ ex[i] = "eval"
    /\ evalRet' = [evalRet EXCEPT ![i] = @ + 1]
    /\ ch' = [ch EXCEPT ![i] = runSpecRes(NilResult, "eval error")]
    /\ ex' = [ex EXCEPT ![i] = "fault"]
    /\ UNCHANGED <<tk, tkStart, attempts, evalCount, res>>
    /\ UnchangedCoordinator
    /\ UnchangedPrologue

\* a retry loop that keeps the cleanups of the earlier attempts
evalAssignMerging(prev, r) ==
    IF prev.isNil THEN r ELSE [r EXCEPT !.cleanups = prev.cleanups \o @]

\* res, err = spec.Eval(ctx): the Result of the attempt replaces the one of
\* the attempt before
evalAssign(prev, r) == r

\* Eval returns a Result: a single Eval sends it; the retry loop sends it
\* and stops the ticker if it has no failure, else counts the attempt
EvalResult(i) ==
    /\ Alive
    /\ ex[i] = "eval"
    /\ evalRet' = [evalRet EXCEPT ![i] = @ + 1]
    /\ \E r \in EvalResults(i, evalCount[i]) :
         /\ res' = [res EXCEPT ![i] = evalAssign(res[i], r)]
         /\ IF SingleShot(i) \/ ~Failed(r)
            THEN /\ ch' = [ch EXCEPT ![i] = runSpecRes(res'[i], Nil)]
                 /\ ex' = [ex EXCEPT ![i] = "done"]
                 /\ tk' = [tk EXCEPT ![i] =
                             IF SingleShot(i) THEN @ ELSE "closed"]
                 /\ UNCHANGED attempts
            ELSE /\ attempts' = [attempts EXCEPT ![i] = @ + 1]
                 /\ ex' = [ex EXCEPT ![i] = "loop"]
                 /\ UNCHANGED <<ch, tk>>
    /\ UNCHANGED <<tkStart, evalCount>>
    /\ UnchangedCoordinator
    /\ UnchangedPrologue

\* ------------------------------------------------------------ specification

Next ==
    \/ Run
    \/ StartFixture
    \/ FixturesStarted
    \/ EvalSkipIf
    \/ SkipIfEvaluated
    \/ RunSpecBegin
    \/ Tick
    \/ Cancel
    \/ SelectDone
    \/ ReturnAfterTimeout
    \/ SelectRecv
    \/ LoopEnd
    \/ HostCleanups
    \/ \E i \in DOMAIN s.Tests : ExecStart(i)
    \/ \E i \in DOMAIN s.Tests : ExecTick(i)
    \/ \E i \in DOMAIN s.Tests : TickerFire(i)
    \/ \E i \in DOMAIN s.Tests : TickerCtxDone(i)
    \/ \E i \in DOMAIN s.Tests : ExecLoopClosed(i)
    \/ \E i \in DOMAIN s.Tests : EvalFault(i)
    \/ \E i \in DOMAIN s.Tests : EvalResult(i)

\* Scenario.Run on the drawn scenarios
Spec == Init /\ [][Next]_vars

\* ------------------------------------------- the verifier on one dependency

\* scenarios of one dependency, drawn with every answer of the host
DepScenarios ==
    {Scenario(<<c>>, 0, 0, [i \in {0} |-> PlainSpec]) : c \in DepCases}

InitDep ==
    /\ s \in DepScenarios
    /\ subject = "run.Run"
    /\ pc = "Run"
    /\ InitRun

NextDep == Run

\* Scenario.Run up to the return of checkDependencies
SpecDep == InitDep /\ [][NextDep]_vars

\* ------------------------------------------ the resolver on all four levels

\* the retry and timeout values drawn at each level for the resolver
ResolveRetries ==
    {NilRetry, NoRetry, RetryPolicy(1, FALSE), RetryPolicy(2, FALSE)}
ResolveTimeouts == {NilTimeout, Timeout(1), Timeout(MaxTimeout)}

\* every assignment of the four retry levels, and every assignment of the
\* four timeout levels; a scenario without Defaults has no default values
ResolveLevels ==
    {lv \in LevelsOf(ResolveRetries, {NilTimeout}) \cup
            LevelsOf({NilRetry}, ResolveTimeouts) :
        ~lv.hasDefaults =>
            lv.defaultsRetry = NilRetry /\ lv.defaultsTimeout = NilTimeout}

\* scenarios of one spec configured at any of the four levels
ResolveScenarios ==
    {Scenario(<<>>, 0, 0, [i \in {0} |-> SpecCfg(lv, 0, 0)]) :
        lv \in ResolveLevels}

InitResolve ==
    /\ s \in ResolveScenarios
    /\ subject = "run.Run"
    /\ pc = "Run"
    /\ InitRun

\* the run of the spec with the clock stopped and the context never
\* cancelled
NextResolve ==
    \/ Run
    \/ FixturesStarted
    \/ SkipIfEvaluated
    \/ RunSpecBegin
    \/ SelectRecv
    \/ LoopEnd
    \/ \E i \in DOMAIN s.Tests : ExecStart(i)
    \/ \E i \in DOMAIN s.Tests : ExecTick(i)
    \/ \E i \in DOMAIN s.Tests : TickerFire(i)
    \/ \E i \in DOMAIN s.Tests : EvalFault(i)
    \/ \E i \in DOMAIN s.Tests : EvalResult(i)

SpecResolve == InitResolve /\ [][NextResolve]_vars

\* ------------------------------------------- TestUnit methods, step by step

\* the variables of a scenario run, which calls on test units leave alone
scenarioVars ==
    <<s, subject, depsOutcome, pc, idx, retErr, fixStarted, fixStopped,
      skipEvals, rt, to, now, deadline, cancelled, ex, tk, tkStart, attempts,
      evalCount, evalRet, res, ch, seen, runData, tu, rootUnit, tt,
      scenCleanups, cleanupsRun, goCleanups, scenOK, scenarioResults, cwd,
      specCancelled>>

UnitIds == 1..MaxUnits

\* the two goroutines that use a TestUnit: the one running runExternal and
\* runSpec, and the one running execSpec and Eval
Tasks == {"coordinator", "evaluation"}

\* the methods the coordinating task calls, and the one the evaluation
\* task calls: it logs through the unit of its context, as debug.Printf
\* does, which is the last unit made. Error, Fatal,
\* Skip and Logf take the steps of Errorf, Fatalf, Skipf and Log
CoordinatorMethods ==
    {"Fail", "Failed", "FailNow", "Log", "Errorf", "Fatalf", "Skipf",
     "SkipNow", "Skipped", "Elapsed", "Detail"}
EvaluationMethods == {"Log"}

\* the calls a task makes
CallsOf(t) == IF t = "coordinator" THEN MaxCalls ELSE MaxLogs

\* the unit's fields as they were when finish set done
NotFinal == [set |-> FALSE, failed |-> FALSE, failures |-> <<>>]

\* testunit.New with WithParent(parent) (0: no parent), the RWMutex free
FreshUnit(parent) ==
    [parent |-> parent, failed |-> FALSE, failures |-> <<>>,
     skipped |-> FALSE, done |-> FALSE, logged |-> FALSE, writer |-> Nil,
     readers |-> {}, final |-> NotFinal]

\* the tree of units: unit 1 has no parent, each other unit is a subtest of
\* the unit made before it
UnitTrees == {[u \in UnitIds |-> FreshUnit(u - 1)]}

\* a task that is not in a method
IdleTask ==
    [status |-> "idle", method |-> "", unit |-> 0, step |-> 0, calls |-> 0,
     wasDone |-> FALSE]

\* one step of a method on unit u
Op(o, u) == [op |-> o, u |-> u]

\* the fields of the TestUnit a step reads or writes. The statements a
\* method executes between taking a lock and releasing it are one step:
\* "FailLocked" is the test of done, failed = true and the deferred Unlock
\* of Fail, "FinishLocked" the two assignments and the Unlock of finish
FieldsOf(o) ==
    CASE o = "FailLocked" -> {"done", "failed"}
      [] o = "FinishLocked" -> {"elapsed", "done"}
      [] o = "ReadFailed" -> {"failed"}
      [] o \in {"SetSkipped", "ReadSkipped"} -> {"skipped"}
      [] o = "AppendFailure" -> {"failures"}
      [] o = "ReadElapsed" -> {"elapsed"}
      [] o \in {"WriteDetail", "ReadDetail"} -> {"detail"}
      [] OTHER -> {}

\* the steps that write the fields they touch
IsWrite(o) ==
    o \in {"FailLocked", "FinishLocked", "SetSkipped", "AppendFailure",
           "WriteDetail"}

\* unit u and the units reachable from it through parent links
RECURSIVE Ancestors(_)
Ancestors(u) ==
    IF u = 0 THEN {} ELSE {u} \cup Ancestors(units[u].parent)

\* a Fail that does not call parent.Fail
FailOpsSelfOnly(u) == <<Op("Lock", u), Op("FailLocked", u)>>

\* TestUnit.Fail: parent.Fail() first, then under the unit's lock the panic
\* if the unit is done, or failed = true
RECURSIVE FailOps(_)
FailOps(u) ==
    IF u = 0 THEN <<>>
    ELSE FailOps(units[u].parent) \o <<Op("Lock", u), Op("FailLocked", u)>>

\* TestUnit.finish
finishOps(u) == <<Op("Lock", u), Op("FinishLocked", u)>>

\* TestUnit.log
logOps(u) == <<Op("WriteDetail", u)>>

\* TestUnit.SkipNow: Lock, the deferred RUnlock, skipped = true, finish
SkipNowOps(u) ==
    <<Op("Lock", u), Op("SetSkipped", u)>> \o finishOps(u)
    \o <<Op("RUnlock", u)>>

\* the steps of method m on unit u. Error and Errorf append to failures and
\* call Fail; Fatal and Fatalf call these and then FailNow, which is Fail
\* and finish; Skip and Skipf log and call SkipNow
MethodOps(m, u) ==
    CASE m = "Fail" -> FailOps(u)
      [] m = "Failed" ->
           <<Op("RLock", u), Op("ReadFailed", u), Op("RUnlock", u)>>
      [] m = "FailNow" -> FailOps(u) \o finishOps(u)
      [] m = "Log" -> logOps(u)
      [] m = "Errorf" -> <<Op("AppendFailure", u)>> \o FailOps(u)
      [] m = "Fatalf" ->
           <<Op("AppendFailure", u)>> \o FailOps(u) \o FailOps(u)
           \o finishOps(u)
      [] m = "SkipNow" -> SkipNowOps(u)
      [] m = "Skipf" -> logOps(u) \o SkipNowOps(u)
      [] m = "Skipped" ->
           <<Op("RLock", u), Op("ReadSkipped", u), Op("RUnlock", u)>>
      [] m = "Elapsed" -> <<Op("ReadElapsed", u)>>
      [] m = "Detail" -> <<Op("ReadDetail", u)>>

\* the step task t is at
NextOp(t) == MethodOps(tasks[t].method, tasks[t].unit)[tasks[t].step]

\* no goroutine has panicked or hit a fatal error of the runtime
UnitsAlive == \A t \in Tasks : tasks[t].status \in {"idle", "running"}

\* task t calls method m of unit u
UnitCall(t, m, u) ==
    /\ pc = "units"
    /\ UnitsAlive
    /\ tasks[t].status = "idle"
    /\ tasks[t].calls < CallsOf(t)
    /\ tasks' = [tasks EXCEPT ![t] =
                    [status |-> "running", method |-> m, unit |-> u,
                     step |-> 1, calls |-> tasks[t].calls + 1,
                     wasDone |-> units[u].done]]
    /\ UNCHANGED <<units, suite, scenarioVars>>

\* a step can be taken: Lock waits for the writer and the readers to be
\* gone, RLock for the writer
OpEnabled(o) ==
    CASE o.op = "Lock" ->
           units[o.u].writer = Nil /\ units[o.u].readers = {}
      [] o.op = "RLock" -> units[o.u].writer = Nil
      [] OTHER -> TRUE

\* the unit after task t took step o on it
UnitAfter(t, o) ==
    LET u == units[o.u]
    IN  CASE o.op = "Lock" -> [u EXCEPT !.writer = t]
          [] o.op = "RLock" -> [u EXCEPT !.readers = @ \cup {t}]
          [] o.op = "RUnlock" -> [u EXCEPT !.readers = @ \ {t}]
          [] o.op = "FailLocked" ->
               [u EXCEPT !.failed = (@ \/ ~u.done), !.writer = Nil]
          [] o.op = "SetSkipped" -> [u EXCEPT !.skipped = TRUE]
          [] o.op = "FinishLocked" ->
               [u EXCEPT !.done = TRUE, !.writer = Nil,
                         !.final = IF u.final.set THEN u.final
                                   ELSE [set |-> TRUE, failed |-> u.failed,
                                         failures |-> u.failures]]
          [] o.op = "AppendFailure" ->
               [u EXCEPT !.failures = Append(@, o.u)]
          [] o.op = "WriteDetail" -> [u EXCEPT !.logged = TRUE]
          [] OTHER -> u

\* how task t goes on after step o: the panic of Fail on a done unit (its
\* deferred Unlock runs), the runtime's fatal error for an RUnlock of a
\* lock the task does not hold for reading, the return from the method, or
\* the next step
StatusAfter(t, o) ==
    IF o.op = "FailLocked" /\ units[o.u].done THEN "panicked"
    ELSE IF o.op = "RUnlock" /\ t \notin units[o.u].readers THEN "fatal"
    ELSE IF tasks[t].step = Len(MethodOps(tasks[t].method, tasks[t].unit))
    THEN "idle"
    ELSE "running"

\* task t takes the next step of the method it is in
UnitStep(t) ==
    /\ pc = "units"
    /\ UnitsAlive
    /\ tasks[t].status = "running"
    /\ OpEnabled(NextOp(t))
    /\ units' = [units EXCEPT ![NextOp(t).u] = UnitAfter(t, NextOp(t))]
    /\ tasks' = [tasks EXCEPT ![t].status = StatusAfter(t, NextOp(t)),
                              ![t].step = @ + 1]
    /\ UNCHANGED <<suite, scenarioVars>>

\* fresh units in a tree, and two tasks about to call their methods
InitUnits ==
    /\ s = Scenario(<<>>, 0, 0, [i \in {0} |-> PlainSpec])
    /\ subject = "run.Run"
    /\ pc = "units"
    /\ depsOutcome = NoneChecked
    /\ InitLoopVars
    /\ units \in UnitTrees
    /\ tasks = [t \in Tasks |-> IdleTask]
    /\ suite = NoSuite

NextUnits ==
    \/ \E m \in CoordinatorMethods, u \in UnitIds :
          UnitCall("coordinator", m, u)
    \/ \E m \in EvaluationMethods : UnitCall("evaluation", m, MaxUnits)
    \/ \E t \in Tasks : UnitStep(t)

\* the methods of the TestUnits of a tree called by the two tasks
SpecUnits == InitUnits /\ [][NextUnits]_vars

\* ----------------------------------------------------------------- Suite.Run

\* what a call of Scenario.Run is to its caller: nil is returned, an error is
\* returned, or the call does not return (the goroutine was ended by Skipf of
\* the host test, waits in SkipNow, or has panicked)
ScenarioOutcomes == {Nil, "ErrRequiredFixture", "eval error", "no return"}

\* the Suites drawn: what the Run of each of its scenarios will do, and the
\* context and the subject Suite.Run is called with
Suites ==
    {[NoSuite EXCEPT !.Scenarios = scs, !.ctx = c, !.subject = sub,
                     !.state = "ready"] :
        scs \in SeqsUpTo(ScenarioOutcomes, MaxScenarios), c \in 1..2,
        sub \in {"testing.T", "run.Run"}}

\* sc.Run(ctx, subject) on scenario k of the suite
CallScenario(su, k) ==
    [su EXCEPT !.calls =
        Append(@, [sc |-> k, ctx |-> su.ctx, subject |-> su.subject])]

\* a loop that runs every scenario and returns the first error afterwards
RECURSIVE SuiteRunAllFrom(_, _)
SuiteRunAllFrom(su, k) ==
    IF k > Len(su.Scenarios) THEN [su EXCEPT !.state = "returned"]
    ELSE IF su.Scenarios[k] = "no return"
    THEN [CallScenario(su, k) EXCEPT !.state = "ended"]
    ELSE SuiteRunAllFrom(
             [CallScenario(su, k) EXCEPT
                 !.err = IF su.err = Nil THEN su.Scenarios[k] ELSE su.err],
             k + 1)

\* the loop of Suite.Run from scenario k on: the first error returned by a
\* scenario is returned at once, nil after the last scenario
RECURSIVE SuiteRunFrom(_, _)
SuiteRunFrom(su, k) ==
    IF k > Len(su.Scenarios) THEN [su EXCEPT !.state = "returned"]
    ELSE IF su.Scenarios[k] = "no return"
    THEN [CallScenario(su, k) EXCEPT !.state = "ended"]
    ELSE IF su.Scenarios[k] # Nil
    THEN [CallScenario(su, k) EXCEPT !.state = "returned",
                                     !.err = su.Scenarios[k]]
    ELSE SuiteRunFrom(CallScenario(su, k), k + 1)

\* Suite.Run
SuiteRun ==
    /\ pc = "suite"
    /\ suite.state = "ready"
    /\ suite' = SuiteRunFrom(suite, 1)
    /\ UNCHANGED <<units, tasks, scenarioVars>>

\* a Suite whose Run is about to be called
InitSuite ==
    /\ suite \in Suites
    /\ s = Scenario(<<>>, 0, 0, [i \in {0} |-> PlainSpec])
    /\ subject = suite.subject
    /\ pc = "suite"
    /\ depsOutcome = NoneChecked
    /\ InitLoopVars
    /\ units = <<>>
    /\ tasks = <<>>

\* Suite.Run on the drawn suites
SpecSuite == InitSuite /\ [][SuiteRun]_vars

\* ------------------------------------------------------------- properties

\* C1: in a scenario where no retry and no timeout resolves for any action
\* and no Eval returns an error, once Scenario.Run has returned every
\* action's Eval was invoked exactly once and has returned.
C1_EvalOncePerAction ==
    (/\ pc = "returned"
     /\ retErr = Nil
     /\ \A i \in DOMAIN s.Tests :
          /\ getRetry(s.Tests[i].lv) = NilRetry
          /\ getTimeout(s.Tests[i].lv) = NilTimeout
          /\ ex[i] # "fault")
    => \A i \in DOMAIN s.Tests : evalCount[i] = 1 /\ evalRet[i] = 1

\* C2: what runSpec resolved for the spec is the first non-nil value in
\* the order eval, base, scenario default, plugin default, and nil only if
\* all four are nil; a resolved NoRetry means Eval is invoked at most once,
\* and exactly once when execSpec is done, whatever the Result.
C2_FirstNonNilLevel ==
    ex[0] # "none" =>
        LET lv == s.Tests[0].lv
            retries == <<lv.evalRetry, lv.baseRetry,
                         IF lv.hasDefaults THEN lv.defaultsRetry
                         ELSE NilRetry,
                         lv.pluginRetry>>
            timeouts == <<lv.evalTimeout, lv.baseTimeout,
                          IF lv.hasDefaults THEN lv.defaultsTimeout
                          ELSE NilTimeout,
                          lv.pluginTimeout>>
            FirstOf(seq, nil, got) ==
                \/ \E k \in 1..4 :
                     /\ seq[k] # nil
                     /\ \A j \in 1..(k - 1) : seq[j] = nil
                     /\ got = seq[k]
                \/ (\A k \in 1..4 : seq[k] = nil) /\ got = nil
        IN  /\ FirstOf(retries, NilRetry, rt[0])
            /\ FirstOf(timeouts, NilTimeout, to[0])
            /\ rt[0] = NoRetry =>
                 /\ evalCount[0] <= 1
                 /\ ex[0] \in {"done", "fault"} => evalCount[0] = 1

\* C2 witness: NoRetry at the base level hides a policy of the plugin, and
\* the one Eval returned a Result with failures.
C2_Witness ==
    /\ s.Tests[0].lv.evalRetry = NilRetry
    /\ s.Tests[0].lv.baseRetry = NoRetry
    /\ s.Tests[0].lv.pluginRetry = RetryPolicy(2, FALSE)
    /\ rt[0] = NoRetry
    /\ ex[0] = "done"
    /\ Failed(res[0])
    /\ evalCount[0] = 1

\* C3: with a resolved retry policy of attempts bound A >= 1, Eval is
\* invoked at most A times; once an invocation has returned a Result
\* without failures execSpec is done with no invocation after it, and the
\* Result it sent is that one.
C3_AtMostAStopAtSuccess ==
    \A i \in DOMAIN s.Tests :
        (rt[i].kind = "policy" /\ rt[i].Attempts >= 1) =>
            /\ evalCount[i] <= rt[i].Attempts
            /\ (~res[i].isNil /\ ~Failed(res[i])) =>
                 /\ ex[i] = "done"
                 /\ evalRet[i] = evalCount[i]
                 /\ ch[i].full => ch[i] = runSpecRes(res[i], Nil)

\* C3 witness: the second of at most three invocations returned the first
\* Result without failures, and it is on the channel.
C3_Witness ==
    \E i \in DOMAIN s.Tests :
        /\ rt[i] = RetryPolicy(MaxAttempts, FALSE)
        /\ ex[i] = "done"
        /\ ~Failed(res[i])
        /\ evalCount[i] = 2
        /\ ch[i] = runSpecRes(res[i], Nil)

\* C4: with a finite attempts bound A, every Eval returning failures, no
\* fault and no deadline (no timeout resolved for the action, the context of
\* the run not cancelled), a finished retry loop has invoked Eval exactly A
\* times and sent the Result of the A-th invocation.
C4_ExactlyAAttempts ==
    \A i \in DOMAIN s.Tests :
        (/\ rt[i].kind = "policy"
         /\ rt[i].Attempts >= 1
         /\ ex[i] = "done"
         /\ Failed(res[i])
         /\ to[i] = NilTimeout
         /\ ~cancelled)
        => /\ evalCount[i] = rt[i].Attempts
           /\ res[i] \in EvalResults(i, rt[i].Attempts)

\* the coordinator took the done case of its select for action i and
\* reported the timeout on the action's TestUnit
TimedOut(i) == TimeoutFailure \in Range(tu[i].failures)

C6_TimeoutDoesNotCrash ==
    \A i \in DOMAIN s.Tests :
        (ex[i] = "hung" /\ to[i] # NilTimeout /\ ~cancelled)
        => pc # "panicked"

\* C7: when Scenario.Run has returned without error after receiving a
\* final Result with failures for action i, and no deadline was taken,
\* every later action has been evaluated.
C7_ContinuesAfterFailures ==
    \A i, j \in DOMAIN s.Tests :
        (/\ i < j
         /\ pc = "returned"
         /\ retErr = Nil
         /\ ex[i] = "done"
         /\ ~ch[i].full
         /\ Failed(res[i])
         /\ TimeoutFailure \notin Range(tt.failures))
        => evalCount[j] >= 1

C9_FirstUnsatisfiedDependency ==
    LET bad == {k \in 1..Len(s.Depends) :
                  checkDependency(s.Depends[k].dep,
                                  s.Depends[k].env).err # Nil}
        first == CHOOSE k \in bad : \A l \in bad : k <= l
    IN  (pc # "Run" /\ bad # {}) =>
            /\ pc = "returned"
            /\ retErr = checkDependency(s.Depends[first].dep,
                                        s.Depends[first].env).err
            /\ depsOutcome.at = first
            /\ depsOutcome.checked = first
            /\ fixStarted = <<>>
            /\ skipEvals = 0
            /\ \A i \in DOMAIN s.Tests : evalCount[i] = 0

\* C9 amended: the same, for a scenario without a path or whose directory
\* Scenario.Run could enter; when the directory cannot be entered the error
\* of os.Chdir is returned and no dependency is checked. Nothing is started
\* or evaluated either way.
C9_FirstUnsatisfiedDependencyInScenarioDir ==
    LET bad == {k \in 1..Len(s.Depends) :
                  checkDependency(s.Depends[k].dep,
                                  s.Depends[k].env).err # Nil}
        first == CHOOSE k \in bad : \A l \in bad : k <= l
        entered == \/ s.Path = NoPath
                   \/ Chdir(StartDir, Dir(s.Path)).err = Nil
    IN  (pc # "Run" /\ bad # {}) =>
            /\ pc = "returned"
            /\ fixStarted = <<>>
            /\ skipEvals = 0
            /\ \A i \in DOMAIN s.Tests : evalCount[i] = 0
            /\ IF entered
               THEN /\ retErr = checkDependency(s.Depends[first].dep,
                                                s.Depends[first].env).err
                    /\ depsOutcome.at = first
                    /\ depsOutcome.checked = first
               ELSE /\ retErr = Chdir(StartDir, Dir(s.Path)).err
                    /\ depsOutcome = NoneChecked

\* C9 witness: two unsatisfied dependencies, fixtures and a skip-if
\* condition declared, and the run returned at the first dependency.
C9_Witness ==
    /\ pc = "returned"
    /\ Len(s.Depends) = 2
    /\ s.Depends[1].env.look = "ErrNotFound"
    /\ s.Depends[2].env.look = "ErrNotFound"
    /\ s.Depends[1].dep.Name # s.Depends[2].dep.Name
    /\ s.Fixtures > 0
    /\ s.SkipIf > 0
    /\ retErr = "ErrDependencyNotSatisfied"
    /\ depsOutcome.at = 1

\* C10: a dependency whose When.OS is set and differs from the host OS
\* under case folding is satisfied, and checking it made no executable
\* lookup and no version probe.
C10_OSMismatchSatisfied ==
    \A k \in 1..Len(s.Depends) :
        LET dep == s.Depends[k].dep
        IN  (/\ pc # "Run"
             /\ Len(s.Depends) = 1
             /\ dep # NilDependency
             /\ dep.hasWhen
             /\ dep.OS # ""
             /\ Fold(dep.OS) # Fold(GOOS))
            => /\ depsOutcome.err = Nil
               /\ depsOutcome.checked = 1
               /\ depsOutcome.lookups = 0
               /\ depsOutcome.probes = 0

\* C10 witness: a dependency for another OS, on a program that is not on
\* the search path and with a version constraint, was checked.
C10_Witness ==
    /\ pc # "Run"
    /\ Len(s.Depends) = 1
    /\ s.Depends[1].dep.hasWhen
    /\ s.Depends[1].dep.OS = "darwin"
    /\ s.Depends[1].dep.Version.Constraint = ">= 2.0.0"
    /\ s.Depends[1].env.look = "ErrNotFound"
    /\ depsOutcome.err = Nil
    /\ depsOutcome.checked = 1

\* C11: every fixture whose Start returned nil has had its Stop invoked
\* exactly once when the run of the scenario has ended, whichever way it
\* ended: a return (normal completion, a missing or failing later fixture,
\* a fault of a skip-condition or of an action) or a skip (the host's
\* t.Skipf, or rootUnit.Skipf in standalone mode).
C11_StoppedOnEveryExit ==
    pc \in {"returned", "goexit", "blocked"} =>
        \A f \in Range(fixStarted) :
            Cardinality({k \in DOMAIN fixStopped : fixStopped[k] = f}) = 1

\* C12: fixtures are started in the declared order, every start is over
\* before a skip-condition or an action is evaluated, and the fixtures that
\* were started are stopped in exactly the reverse of their start order.
C12_StartOrderReverseStop ==
    /\ \A k \in DOMAIN fixStarted : fixStarted[k] = k
    /\ (skipEvals > 0 \/ \E i \in DOMAIN s.Tests : evalCount[i] > 0)
          => Len(fixStarted) = s.Fixtures
    /\ fixStopped # <<>> =>
          /\ Len(fixStopped) = Len(fixStarted)
          /\ \A k \in DOMAIN fixStopped :
                fixStopped[k] = fixStarted[Len(fixStarted) + 1 - k]

\* C12 witness: two fixtures were started, a skip-condition and an action
\* were evaluated, and the run returned with the second fixture stopped
\* first.
C12_Witness ==
    /\ pc = "returned"
    /\ s.Fixtures = 2
    /\ skipEvals = 1
    /\ evalCount[0] = 1
    /\ fixStarted = <<1, 2>>
    /\ fixStopped = <<2, 1>>

\* C13: skip-conditions are evaluated in the declared order, each at most
\* once, after the fixtures are started; once one of them returned a Result
\* without failures the scenario is marked skipped, no later skip-condition
\* and no action is evaluated, and the run ends without a fault; actions
\* are evaluated only after every skip-condition returned failures.
C13_SkipAtFirstPass ==
    /\ skipEvals <= s.SkipIf
    /\ skipEvals > 0 => Len(fixStarted) = s.Fixtures
    /\ (\E i \in DOMAIN s.Tests : evalCount[i] > 0) => skipEvals = s.SkipIf
    /\ (pc \in {"goexit", "blocked"} \/ rootUnit.skipped) =>
          /\ \A i \in DOMAIN s.Tests : evalCount[i] = 0
          /\ retErr = Nil
          /\ pc \in {"goexit", "returned"}

\* C14: when the run of the actions has ended with no fault (no Eval
\* returned an error; the caller did not cancel the context), Scenario.Run
\* has returned nil, whether the actions' Results carried failures or an
\* action timed out.
C14_NilWithoutFault ==
    (/\ pc \in {"returned", "panicked"}
     /\ \E i \in DOMAIN s.Tests : ex[i] # "none"
     /\ \A i \in DOMAIN s.Tests : ex[i] # "fault"
     /\ ~cancelled)
    => (pc = "returned" /\ retErr = Nil)

\* C15: every non-nil error Scenario.Run returned is derived from
\* api.RuntimeError, whichever fault it reports: a dependency failure, an
\* unknown host object, a timeout conflict, a missing fixture, a fixture
\* Start error, a skip-condition fault or an action fault.
C15_ReturnedErrorIsRuntimeError ==
    (pc = "returned" /\ retErr # Nil) => IsRuntimeError(retErr)

\* C16: when runExternal has returned, the cleanups it accumulated have
\* each been run once, in the reverse of the order of their accumulation,
\* if no action's test unit failed and no fault ended the loop over the
\* actions; otherwise no cleanup has been run.
C16_CleanupsIffSucceeded ==
    (subject = "run.Run" /\ pc = "returned") =>
        IF (\A i \in DOMAIN s.Tests : ~tu[i].failed) /\ retErr = Nil
        THEN /\ Len(cleanupsRun) = Len(scenCleanups)
             /\ \A k \in DOMAIN cleanupsRun :
                   /\ cleanupsRun[k] = scenCleanups[k]
                   /\ k > 1 => cleanupsRun[k - 1] > cleanupsRun[k]
        ELSE cleanupsRun = <<>>

\* C17: in host-native mode the cleanups of every Result obtained from an
\* action are registered with the host before the Result's failures are
\* reported, and when the host test has ended and called them each
\* registered cleanup has run exactly once, last registered first, whatever
\* failures or fault followed its registration.
C17_GoCleanupsAlwaysRun ==
    subject = "testing.T" =>
        /\ \A i \in DOMAIN s.Tests :
              i < idx => \E k \in DOMAIN goCleanups :
                            goCleanups[k] = CallId(i, evalRet[i])
        /\ \A n \in DOMAIN tt.failures :
              tt.failures[n] # TimeoutFailure =>
                 \E k \in DOMAIN goCleanups :
                    goCleanups[k] = tt.failures[n] \div 10
        /\ cleanupsRun # <<>> =>
              /\ pc \in {"returned", "goexit", "panicked"}
              /\ Len(cleanupsRun) = Len(goCleanups)
              /\ \A k \in DOMAIN goCleanups :
                    cleanupsRun[Len(goCleanups) + 1 - k] = goCleanups[k]
        /\ \A j, k \in DOMAIN goCleanups : j < k => goCleanups[j] < goCleanups[k]

\* C17 witness: the host test ended after the first action passed and the
\* second returned failures; the cleanups of both ran, the second's first.
C17_Witness ==
    /\ subject = "testing.T"
    /\ pc = "returned"
    /\ idx = 1
    /\ tt.failed
    /\ Len(goCleanups) = 2
    /\ cleanupsRun = <<goCleanups[2], goCleanups[1]>>

\* C18: Run.OK() is true if and only if every TestUnitResult stored in the
\* Run, under every scenario path, has zero failures.
C18_OKIffNoFailures ==
    RunOK(RunScenarioResults)
        <=> \A p \in DOMAIN RunScenarioResults :
               \A k \in DOMAIN RunScenarioResults[p] :
                  TestUnitResultOK(RunScenarioResults[p][k])

\* C19: after Scenario.Run has returned in standalone mode, the
\* number of records stored under the scenario's path equals the number of
\* actions of the scenario.
C19_OneRecordPerAction ==
    (subject = "run.Run" /\ pc = "returned") =>
        Len(scenarioResults) = NumSpecs

\* C20: in host-native mode, once the dependencies are satisfied: if the
\* host test has a deadline and the scenario's total wait or its largest
\* timeout exceeds the time left until that deadline, runGo has returned
\* ErrTimeoutConflict with no fixture started and no skip-condition or
\* action evaluated; if neither exceeds it, or the host has no deadline,
\* ErrTimeoutConflict is never returned.
C20_TimeoutConflictUpFront ==
    (subject = "testing.T" /\ pc # "Run" /\ depsOutcome.err = Nil) =>
        IF /\ s.Timings.hasDeadline
           /\ \/ s.Timings.TotalWait > s.Timings.GoTestTimeout
              \/ s.Timings.MaxTimeout > s.Timings.GoTestTimeout
        THEN /\ pc = "returned"
             /\ retErr = "ErrTimeoutConflict"
             /\ fixStarted = <<>>
             /\ skipEvals = 0
             /\ \A i \in DOMAIN s.Tests : evalCount[i] = 0 /\ ex[i] = "none"
        ELSE retErr # "ErrTimeoutConflict"

\* C20 witness: the host test had a deadline that the total wait respects
\* and the largest timeout exceeds, and runGo returned the conflict fault
\* on a scenario with fixtures and a skip-condition.
C20_Witness ==
    /\ subject = "testing.T"
    /\ pc = "returned"
    /\ s.Timings.hasDeadline
    /\ s.Timings.TotalWait = 1
    /\ s.Timings.GoTestTimeout = 1
    /\ s.Timings.MaxTimeout = 2
    /\ s.Fixtures = 2
    /\ s.SkipIf = 1
    /\ retErr = "ErrTimeoutConflict"

\* C21: a call of TestUnit.Fail on a unit, no unit from it up through the
\* parent links being done, does not panic, and when it has returned the
\* unit and every one of those ancestors is failed.
C21_FailMarksAncestors ==
    \A t \in Tasks :
        (/\ tasks[t].method = "Fail"
         /\ \A a \in Ancestors(tasks[t].unit) : ~units[a].done)
        => /\ tasks[t].status \in {"running", "idle"}
           /\ tasks[t].status = "idle" =>
                 \A a \in Ancestors(tasks[t].unit) : units[a].failed

\* C21 witness: Fail was called first, on a unit whose parent has a parent,
\* and has returned with the three units failed and none of them done.
C21_Witness ==
    /\ tasks["coordinator"].method = "Fail"
    /\ tasks["coordinator"].status = "idle"
    /\ tasks["coordinator"].calls = 1
    /\ tasks["coordinator"].unit = 3
    /\ units[3].parent = 2
    /\ units[2].parent = 1
    /\ \A u \in UnitIds : units[u].failed /\ ~units[u].done

\* C22: a call of Fail, Error, Errorf, Fatal, Fatalf or FailNow on a unit
\* that was done when the call began does not return (it panics), and at
\* every step of it the unit's failed flag, failures list and done flag are
\* as they were when the unit was finalized.
C22_NoMutationAfterDone ==
    \A t \in Tasks :
        (/\ tasks[t].method \in {"Fail", "Errorf", "Fatalf", "FailNow"}
         /\ tasks[t].wasDone)
        => LET u == units[tasks[t].unit]
           IN  /\ tasks[t].status # "idle"
               /\ u.done
               /\ u.failed = u.final.failed
               /\ u.failures = u.final.failures

\* C23: every read and write of a TestUnit's mutable state is made under the
\* unit's lock: whenever the two tasks are about to touch a common field of
\* the same unit and one of them writes it, both hold the unit's lock
\* (the writer for writing, the other for writing or reading).
C23_StateGuardedByLock ==
    \A t1 \in Tasks, t2 \in Tasks :
        LET Holds(t, u) == units[u].writer = t \/ t \in units[u].readers
        IN  (/\ t1 # t2
             /\ tasks[t1].status = "running"
             /\ tasks[t2].status = "running"
             /\ NextOp(t1).u = NextOp(t2).u
             /\ FieldsOf(NextOp(t1).op) \cap FieldsOf(NextOp(t2).op) # {}
             /\ IsWrite(NextOp(t1).op))
            => /\ Holds(t1, NextOp(t1).u)
               /\ Holds(t2, NextOp(t2).u)

\* C26: SkipNow, Skip and Skipf return to their caller without blocking or
\* panicking: a task inside one of them is never waiting for a lock that it
\* holds itself, and is neither panicked nor stopped by a fatal error.
C26_SkipNowReturns ==
    \A t \in Tasks :
        tasks[t].method \in {"SkipNow", "Skipf"}
        => /\ tasks[t].status \in {"idle", "running"}
           /\ tasks[t].status = "running"
              => ~(/\ NextOp(t).op = "Lock"
                   /\ units[NextOp(t).u].writer = t)

C25_CancelReturnsWithoutCrash == cancelled => pc # "panicked"

\* C27: each action's deadline is derived freshly from the scenario's
\* context: when runSpec starts an action for which a timeout resolves, the
\* action's deadline is its own start plus its own timeout, whatever the
\* deadlines of the actions before it; the deadlines of other actions are
\* left as they are; and no step of the coordinator or of an evaluation task
\* (a timeout, a received message, a return) cancels the scenario's context.
C27_DeadlineFromOwnStart ==
    [][/\ (pc = "loop" /\ pc' = "select")
          => /\ to'[idx] # NilTimeout
                => deadline'[idx] = now' + to'[idx].After
             /\ \A j \in TestIdx \ {idx} : deadline'[j] = deadline[j]
       /\ (cancelled' # cancelled)
          => /\ pc' = pc /\ idx' = idx /\ ex' = ex /\ ch' = ch
             /\ tu' = tu /\ tt' = tt
       /\ (pc = "select" /\ pc' # "select")
          => deadline' = deadline /\ cancelled' = cancelled]_vars

\* the second action is in flight and its context is not done although the
\* deadline of the first, which finished in time, has passed
C27_Witness ==
    /\ NumSpecs = 2
    /\ pc = "select"
    /\ idx = 1
    /\ ex[0] = "done"
    /\ to[0] # NilTimeout
    /\ to[1] # NilTimeout
    /\ now >= deadline[0]
    /\ ~ctxDone(1)
    /\ deadline[1] > deadline[0]

\* C29: Scenario.Run called with a subject that is neither a *testing.T nor
\* a *run.Run returns a fault, and starts no fixture and evaluates no
\* skip-if condition and no action.
C29_UnknownSubjectIsFault ==
    (subject = "other" /\ pc # "Run")
    => /\ pc = "returned"
       /\ retErr # Nil
       /\ fixStarted = <<>>
       /\ fixStopped = <<>>
       /\ skipEvals = 0
       /\ rootUnit = NoTestUnit
       /\ \A i \in TestIdx : ex[i] = "none" /\ evalCount[i] = 0

\* the unknown subject was rejected for a scenario whose dependencies are
\* satisfied and that names fixtures and skip-if conditions
C29_Witness ==
    /\ subject = "other"
    /\ pc = "returned"
    /\ retErr = "unknown run type"
    /\ Len(s.Depends) > 0
    /\ s.Fixtures > 0
    /\ s.SkipIf > 0

\* C30: when a fixture named by the scenario is not found in the fixture
\* table, the run returns ErrRequiredFixture for it: the fixtures declared
\* before it were started and are stopped, it and the fixtures declared
\* after it are not started, and no skip-if condition and no action is
\* evaluated; nothing is evaluated while a named fixture is not started.
C30_MissingFixtureIsFault ==
    LET NothingEvaluated ==
            /\ skipEvals = 0
            /\ \A i \in TestIdx : ex[i] = "none" /\ evalCount[i] = 0
    IN  /\ (pc = "returned" /\ retErr = "ErrRequiredFixture")
           => /\ subject \in {"testing.T", "run.Run"}
              /\ Len(fixStarted) < s.Fixtures
              /\ \A k \in DOMAIN fixStarted : fixStarted[k] = k
              /\ fixStopped = Reverse(fixStarted)
              /\ NothingEvaluated
        /\ Len(fixStarted) < s.Fixtures => NothingEvaluated

\* the second of two fixtures was missing: the first was started and is
\* stopped, and the scenario has skip-if conditions that were not evaluated
C30_Witness ==
    /\ pc = "returned"
    /\ retErr = "ErrRequiredFixture"
    /\ s.Fixtures = 2
    /\ fixStarted = <<1>>
    /\ fixStopped = <<1>>
    /\ s.SkipIf > 0
    /\ skipEvals = 0

\* C28: Suite.Run calls the Run of its scenarios in declared order, each with
\* the context and the subject it was given itself; when it has returned, it
\* returned the first error a scenario returned and called no scenario after
\* that one, or it called every scenario, each returned nil, and it returned
\* nil.
C28_SuiteReturnsFirstFault ==
    LET n == Len(suite.calls)
    IN  /\ n <= Len(suite.Scenarios)
        /\ \A k \in 1..n :
              /\ suite.calls[k] =
                    [sc |-> k, ctx |-> suite.ctx, subject |-> suite.subject]
              /\ k < n => suite.Scenarios[k] = Nil
        /\ suite.state = "returned"
           => IF suite.err # Nil
              THEN n > 0 /\ suite.err = suite.Scenarios[n]
              ELSE /\ n = Len(suite.Scenarios)
                   /\ \A k \in 1..n : suite.Scenarios[k] = Nil

\* a suite of three scenarios returned the error of its second one
C28_Witness ==
    /\ suite.state = "returned"
    /\ Len(suite.Scenarios) = 3
    /\ suite.Scenarios[1] = Nil
    /\ suite.Scenarios[2] = "eval error"
    /\ suite.err = "eval error"
    /\ Len(suite.calls) = 2

\* C31: the wait after of an action is applied only when the action
\* succeeded: a step in which runSpec leaves its select and sleeps is one
\* that received a Result without an error and without failures.
C31_PostWaitOnlyOnSuccess ==
    [][(pc \in {"select", "timedout"} /\ pc' # pc /\ now' # now)
       => /\ ch[idx].full
          /\ ch'[idx] = NoMsg
          /\ ch[idx].err = Nil
          /\ ~Failed(ch[idx].r)]_vars

\* C32: the wait before of an action is over before the action's deadline is
\* set and before its evaluation task is started: the step that starts an
\* action sleeps the wait before, sets the deadline to the time after the
\* sleep plus the timeout, and only then starts execSpec, which has made no
\* Eval call yet.
C32_PreWaitBeforeDeadline ==
    [][(pc = "loop" /\ pc' = "select")
       => /\ now' = now + s.Tests[idx].Before
          /\ to'[idx] # NilTimeout
             => deadline'[idx] = now + s.Tests[idx].Before + to'[idx].After
          /\ ex[idx] = "none"
          /\ ex'[idx] = "spawned"
          /\ evalCount'[idx] = 0]_vars

\* an action with a wait before and a timeout has been started: its whole
\* timeout is still ahead when execSpec is about to run
C32_Witness ==
    /\ pc = "select"
    /\ idx = 0
    /\ s.Tests[0].Before > 0
    /\ to[0] # NilTimeout
    /\ ex[0] = "spawned"
    /\ now = s.Tests[0].Before
    /\ deadline[0] = now + to[0].After

\* C33: the Result a retried action hands to the orchestrator is the Result
\* of its last Eval invocation: the message on the channel carries a Result
\* of the last invocation, and every cleanup registered or run, every
\* failure recorded and every run datum propagated comes from the last
\* invocation of some action, none from an earlier attempt.
C33_LastAttemptOnly ==
    LET LastIds == {CallId(i, evalCount[i]) : i \in DOMAIN s.Tests}
        FailureIds == {10 * c + k : c \in LastIds, k \in 1..2}
    IN  /\ \A i \in DOMAIN s.Tests :
              (ch[i].full /\ ch[i].err = Nil /\ evalCount[i] >= 1)
              => /\ evalRet[i] = evalCount[i]
                 /\ ch[i].r \in EvalResults(i, evalCount[i])
        /\ Range(scenCleanups) \cup Range(goCleanups) \cup Range(cleanupsRun)
              \subseteq LastIds
        /\ \A k \in DOMAIN scenarioResults :
              Range(scenarioResults[k].failures) \subseteq FailureIds
        /\ \A n \in DataNames : runData[n] \in LastIds \cup {0}

\* the first action was evaluated twice and the orchestrator has taken the
\* second Result: its cleanup is the only one registered
C33_Witness ==
    /\ subject = "run.Run"
    /\ idx >= 1
    /\ rt[0].kind = "policy"
    /\ evalCount[0] = 2
    /\ scenCleanups = <<CallId(0, 2)>>
    /\ Len(scenarioResults) >= 1

\* C34: execSpec sends one message and has returned once it has sent it, so
\* the send finds the channel of capacity 1 empty; and once the context of
\* the action is done the retry loop makes no new Eval call.
C34_OneSendNoEvalAfterDone ==
    [][\A i \in DOMAIN s.Tests :
          /\ (ch'[i].full /\ ch'[i] # ch[i])
             => /\ ~ch[i].full
                /\ ex[i] \in {"eval", "loop"}
                /\ ex'[i] \in {"done", "fault"}
          /\ ex[i] \in {"done", "fault"} => ex'[i] = ex[i]
          /\ (evalCount'[i] > evalCount[i] /\ ~SingleShot(i))
             => ~ctxDone(i)]_vars

C36_AppendOnly ==
    [][/\ scenarioResults' # scenarioResults
          => /\ Len(scenarioResults') = Len(scenarioResults) + 1
             /\ SubSeq(scenarioResults', 1, Len(scenarioResults))
                   = scenarioResults
             /\ scenarioResults'[Len(scenarioResults')].index = idx
             /\ \A other \in {<<>>, <<[index |-> 0, skipped |-> FALSE,
                                      failures |-> <<7>>]>>} :
                   LET prior == [q \in DOMAIN RunScenarioResults
                                          \cup {"other.yaml"} |->
                                    IF q = "other.yaml" THEN other
                                    ELSE RunScenarioResults[q]]
                       returned == IF pc = "timedout" THEN NilResult
                                   ELSE ch[idx].r
                       after == RunStoreResult(prior, s.Path, idx,
                                               tu'[idx], returned)
                   IN  /\ DOMAIN after = {"other.yaml", s.Path}
                       /\ after["other.yaml"] = other
                       /\ after[s.Path] = scenarioResults'
       /\ \A k \in DOMAIN scenarioResults' :
             scenarioResults'[k].index = k - 1
       /\ Len(scenarioResults') <= idx'
       /\ (subject = "run.Run" /\ pc' \in {"loop", "returned"})
          => Len(scenarioResults') = idx']_vars

\* three actions completed and three records are stored, in order
C36_Witness ==
    /\ subject = "run.Run"
    /\ pc = "returned"
    /\ Len(scenarioResults) = 3
    /\ \A k \in 1..3 : scenarioResults[k].index = k - 1
    /\ ~TestUnitResultOK(scenarioResults[1])

\* C37: every failure of an action's final Result is reported through the
\* action's T, in the Result's order: in standalone mode the failures of the
\* action's TestUnit are those of its record; in host-native mode, once the
\* orchestrator has taken a Result with failures and no deadline was taken,
\* the failures of the subtest's T are those of the Result.
C37_EveryFailureReported ==
    /\ subject = "run.Run"
       => \A k \in DOMAIN scenarioResults :
             tu[scenarioResults[k].index].failures
                = scenarioResults[k].failures
    /\ subject = "testing.T"
       => \A i \in DOMAIN s.Tests :
             (/\ pc = "returned"
              /\ ex[i] = "done"
              /\ ~ch[i].full
              /\ Failed(res[i])
              /\ TimeoutFailure \notin Range(tt.failures))
             => tt.failures = res[i].failures

\* C38: for a located dependency with a version constraint whose probe ran,
\* the verifier's answer is the one obtained by applying an extraction
\* pattern to the probe output before parsing: the selector's own pattern
\* if it has one, else the default pattern, also when the dependency
\* declares no selector.
C38_PatternAlwaysApplied ==
    \A k \in 1..Len(s.Depends) :
        LET dep == s.Depends[k].dep
            env == s.Depends[k].env
            sel == dep.Version.Selector
            pattern == IF sel.FilterRegex # Nil THEN sel.FilterRegex
                       ELSE DefaultFilter
            token == FindString(pattern, env.probe.out)
        IN  (/\ pc # "Run"
             /\ Len(s.Depends) = 1
             /\ dep # NilDependency
             /\ ~(dep.hasWhen /\ dep.OS # "" /\ ~EqualFold(GOOS, dep.OS))
             /\ env.look = "found"
             /\ dep.Version # NilVersion
             /\ dep.Version.Constraint # ""
             /\ ~env.probe.err)
            => depsOutcome.err =
                  IF token = NoMatch
                  THEN "unable to determine version string"
                  ELSE IF NewVersion(token) < 0
                          \/ ~Check(dep.Version.Constraint, NewVersion(token))
                  THEN "ErrDependencyNotSatisfied"
                  ELSE Nil

\* C39: for a located dependency with a version constraint whose probe ran,
\* each of the three outcomes (no version token extracted from the probe
\* output, a token that is no semantic version, a version that fails the
\* constraint) makes the verifier return an error derived from
\* ErrDependencyNotSatisfied that carries the dependency's constraint.
C39_UnsatisfiedCarriesConstraint ==
    \A k \in 1..Len(s.Depends) :
        LET dep == s.Depends[k].dep
            env == s.Depends[k].env
            vs == versionStringFromDependency(env, dep.Version.Selector)
            o == checkDependency(dep, env)
        IN  (/\ pc # "Run"
             /\ Len(s.Depends) = 1
             /\ dep # NilDependency
             /\ ~(dep.hasWhen /\ dep.OS # "" /\ ~EqualFold(GOOS, dep.OS))
             /\ env.look = "found"
             /\ dep.Version # NilVersion
             /\ dep.Version.Constraint # ""
             /\ ~env.probe.err
             /\ \/ vs.err # Nil
                \/ NewVersion(vs.str) < 0
                \/ ~Check(dep.Version.Constraint, NewVersion(vs.str)))
            => /\ depsOutcome.err = o.err
               /\ retErr = "ErrDependencyNotSatisfied"
               /\ o.constraint = dep.Version.Constraint

====
